---- MODULE Spec2Model ----
(***************************************************************************)
(* Model of the staleness-aware refresh cache of sota-tracker              *)
(* (fetchers/cache_manager.py) together with the fetchers' record          *)
(* construction (fetchers/huggingface.py, fetchers/artificial_analysis.py, *)
(* utils/models.py) and the two tables the cache writes (init_db.py).      *)
(***************************************************************************)
EXTENDS Integers, Sequences, FiniteSets, TLC

\* ------------------------------------------------------------------------
\* Bounds of the model
\* ------------------------------------------------------------------------
NumThreads == 2
MaxTime == 2
TicksPerDay == 2
MaxVramGb == 12
MaxNameLen == 3

Threads == 1..NumThreads

\* ------------------------------------------------------------------------
\* Values
\* ------------------------------------------------------------------------
\* Python None / SQL NULL in a text column.
None == "None"

\* The map with an automatic source configured for music and 3d as well.
CATEGORY_SOURCES_all_automatic ==
    [llm_local  |-> <<"huggingface">>,
     llm_api    |-> <<"lmarena", "artificial_analysis">>,
     llm_coding |-> <<"huggingface", "lmarena">>,
     image_gen  |-> <<"artificial_analysis">>,
     image_edit |-> <<"artificial_analysis">>,
     video      |-> <<"artificial_analysis">>,
     tts        |-> <<"artificial_analysis">>,
     stt        |-> <<"huggingface">>,
     music      |-> <<"artificial_analysis">>,
     threed     |-> <<"artificial_analysis">>,
     embeddings |-> <<"huggingface">>]

\* CacheManager.CATEGORY_SOURCES
CATEGORY_SOURCES ==
    [llm_local  |-> <<"huggingface">>,
     llm_api    |-> <<"lmarena", "artificial_analysis">>,
     llm_coding |-> <<"huggingface", "lmarena">>,
     image_gen  |-> <<"artificial_analysis">>,
     image_edit |-> <<"artificial_analysis">>,
     video      |-> <<"artificial_analysis">>,
     tts        |-> <<"artificial_analysis">>,
     stt        |-> <<"huggingface">>,
     music      |-> <<>>,
     threed     |-> <<>>,
     embeddings |-> <<"huggingface">>]

\* The lookup with a default source for a code that is not configured:
\* self.CATEGORY_SOURCES.get(category, ["huggingface"])
SourcesOfDefaultHub(category) ==
    IF category \in DOMAIN CATEGORY_SOURCES THEN CATEGORY_SOURCES[category]
    ELSE <<"huggingface">>

\* self.CATEGORY_SOURCES.get(category, [])
SourcesOf(category) ==
    IF category \in DOMAIN CATEGORY_SOURCES THEN CATEGORY_SOURCES[category] ELSE <<>>

\* The workloads of one run: the category codes the callers pass in, the
\* operations they call and whether the store's writes can fail during the
\* run ("threed" stands for the code "3d", "no_such_category" for a code that
\* is not configured).
Operations == {"refresh_if_stale", "force_refresh"}

Scenarios ==
    { [categories |-> {c}, ops |-> Operations, store_fails |-> FALSE] :
          c \in {"llm_coding", "llm_api", "threed", "no_such_category"} }
    \cup { [categories |-> {c}, ops |-> Operations, store_fails |-> TRUE] :
              c \in {"llm_local", "image_edit", "music"} }
    \cup { [categories |-> {"llm_local", "image_edit"}, ops |-> {"refresh_if_stale"},
            store_fails |-> FALSE] }

\* ------------------------------------------------------------------------
\* utils/models.py
\* ------------------------------------------------------------------------
\* str.lower() of one character, on the characters the model's names are
\* written with.  The lowercase of U+0130 (capital I with dot above) is two
\* characters, i and U+0307 (combining dot above); the lowercase of every
\* other character is one character.
Lower(ch) ==
    CASE ch = "M" -> <<"m">>
      [] ch = "X" -> <<"x">>
      [] ch = "U+0130" -> <<"i", "U+0307">>
      [] OTHER -> <<ch>>

RECURSIVE MapLower(_)
MapLower(s) == IF s = <<>> THEN <<>> ELSE Lower(Head(s)) \o MapLower(Tail(s))

\* str.replace(old, new) for a one-character old.
RECURSIVE str_replace(_, _, _)
str_replace(s, old, new) ==
    IF s = <<>> THEN <<>>
    ELSE <<IF Head(s) = old THEN new ELSE Head(s)>> \o str_replace(Tail(s), old, new)

\* str.replace(old, "-")
Replace(s, old) == str_replace(s, old, "-")

\* The normalizer leaving dots in place.
normalize_model_id_keeps_dots(name) ==
    IF name = <<>> THEN <<>>
    ELSE Replace(Replace(MapLower(name), " "), "/")

\* The normalizer turning a dot into a space after the spaces were replaced.
normalize_model_id_dot_to_space(name) ==
    IF name = <<>> THEN <<>>
    ELSE str_replace(Replace(Replace(MapLower(name), " "), "/"), ".", " ")

normalize_model_id(name) ==
    IF name = <<>> THEN <<>>
    ELSE Replace(Replace(Replace(MapLower(name), " "), "/"), ".")

\* The ranking a provider currently publishes: display names, best first,
\* as sequences of characters.
ProviderRanking == << <<"M", ".", "1">>, <<"m", "-", "1">> >>

\* utils.classification.is_open_source(name)
is_open_source(name) == Head(name) # "X"

build_model_dict(name, rank, category, open, metrics) ==
    [id |-> normalize_model_id(name), name |-> name, category |-> category,
     is_open_source |-> open, sota_rank |-> rank, metrics |-> metrics]

\* ------------------------------------------------------------------------
\* Fetchers: what a provider answers (a payload: a list of display names)
\* and the records each fetcher builds from it.
\* ------------------------------------------------------------------------
Take(s, n) == IF Len(s) <= n THEN s ELSE SubSeq(s, 1, n)

LeaderboardTop == 20
MAX_ARENA_SIZE == 20

\* What a provider answers when it answers with data: its ranking.
Payloads == { ProviderRanking }

\* HuggingFaceFetcher._parse_leaderboard; a record without the key
\* sota_rank is shown with sota_rank 0 (model.get("sota_rank") is None).
parse_leaderboard(data) ==
    [i \in 1..Len(Take(data, LeaderboardTop)) |->
        [id |-> normalize_model_id(data[i]), name |-> data[i],
         category |-> "llm_local", is_open_source |-> TRUE, sota_rank |-> 0,
         metrics |-> "huggingface_leaderboard"]]

\* HuggingFaceFetcher._parse_hub_models: no category, is_open_source,
\* sota_rank or metrics key.
parse_hub_models(data) ==
    [i \in 1..Len(data) |->
        [id |-> normalize_model_id(data[i]), name |-> data[i],
         category |-> "absent", is_open_source |-> TRUE, sota_rank |-> 0,
         metrics |-> "{}"]]

\* ArtificialAnalysisFetcher._map_category
map_category(aa_category) ==
    CASE aa_category = "llm" -> "llm_api"
      [] OTHER -> aa_category

\* ArtificialAnalysisFetcher._parse_next_data / _parse_table / _entry_to_model
aa_parse(data, aa_category) ==
    [i \in 1..Len(Take(data, MAX_ARENA_SIZE)) |->
        build_model_dict(data[i], i, map_category(aa_category),
                         is_open_source(data[i]), "artificial_analysis")]

\* LMArenaFetcher.fetch_elo_rankings builds its records with the normalizer.
lmarena_parse(data) ==
    [i \in 1..Len(data) |->
        build_model_dict(data[i], i, "llm_api", is_open_source(data[i]), "lmarena")]

\* aa_category_map in CacheManager._fetch_from_source ("" when the key is missing)
aa_category_map(category) ==
    CASE category = "llm_api" -> "llm"
      [] category \in {"image_gen", "video", "tts"} -> category
      [] category = "image_edit" -> "image_gen"
      [] OTHER -> ""

\* The results one invocation of CacheManager._fetch_from_source can give:
\* [raised |-> FALSE, value |-> list of records] or [raised |-> TRUE, ...].
\* The fetchers under src/ catch every Exception and answer []; an exception
\* can only come out of the LMArena fetcher.
Returned(list) == [raised |-> FALSE, value |-> list, message |-> None]
Raised(msg) == [raised |-> TRUE, value |-> <<>>, message |-> msg]

fetch_from_source(source, category) ==
    CASE source = "huggingface" ->
            IF category \in {"llm_local", "llm_coding"}
            THEN {Returned(<<>>)} \cup {Returned(parse_leaderboard(d)) : d \in Payloads}
            ELSE IF category \in {"embeddings", "stt"}
            THEN {Returned(<<>>)} \cup {Returned(parse_hub_models(d)) : d \in Payloads}
            ELSE {Returned(<<>>)}
      [] source = "lmarena" ->
            {Returned(<<>>), Raised("lmarena failed")}
                \cup {Returned(lmarena_parse(d)) : d \in Payloads}
      [] source = "artificial_analysis" ->
            IF aa_category_map(category) # ""
            THEN {Returned(<<>>)}
                    \cup {Returned(aa_parse(d, aa_category_map(category))) : d \in Payloads}
            ELSE {Returned(<<>>)}
      [] OTHER -> {Returned(<<>>)}

\* ------------------------------------------------------------------------
\* State
\* ------------------------------------------------------------------------
VARIABLES
    scope,           \* this run's workload: the category codes and operations its callers use
    now,             \* the process clock, in ticks
    refresh_lock,    \* CacheManager._refresh_lock: owning thread, 0 when free
    category_locks,  \* CacheManager._category_locks: category -> lock object
    lock_owner,      \* every lock object created so far -> owning thread, 0 when free
    cache_status,    \* table cache_status: category -> row
    models_table,    \* table models: id -> row
    pc,              \* each request thread's position ("idle" before its call, "done" after)
    frame,           \* each thread's locals in refresh_if_stale / force_refresh
    result,          \* what each thread's call returned or raised, and the statement it left at
    invoked,         \* per thread: the fetch invocations of the call it is in
    fetched_calls,   \* per category: how many calls invoked a fetcher on the current date
    disturbed,       \* per category: a forced delete or failed store write on the current date
    observed,        \* the last call made outside refresh_if_stale / force_refresh:
                     \* its arguments and what it returned or raised
    connections,     \* the sqlite3 connections that are open, each with the call that opened it
    hardware_profiles, \* the content of data/hardware_profiles.json
    DEFAULT_PROFILE, \* utils.hardware.DEFAULT_PROFILE, the module-level template
    models_columns,  \* the columns of table models
    schema_version,  \* table schema_version: version -> name
    cache_manager,   \* the module global _cache_manager: 0 for None, else the number
                     \* of the CacheManager it refers to
    cache_manager_lock, \* _cache_manager_lock: owning thread, 0 when free
    constructed      \* the CacheManager objects constructed so far: the db_path of each

\* The module-level singleton of fetchers/cache_manager.py.
singleton == <<cache_manager, cache_manager_lock, constructed>>

\* The state outside the cache manager's tables, locks and calls.
elsewhere ==
    <<connections, hardware_profiles, DEFAULT_PROFILE, models_columns, schema_version,
      singleton>>

vars == <<scope, now, refresh_lock, category_locks, lock_owner, cache_status, models_table,
          pc, frame, result, invoked, fetched_calls, disturbed, observed, connections,
          hardware_profiles, DEFAULT_PROFILE, models_columns, schema_version,
          cache_manager, cache_manager_lock, constructed>>

\* datetime.date of a timestamp
DateOf(ts) == ts \div TicksPerDay

\* The text a TIMESTAMP column holds: datetime.isoformat() of an instant,
\* NULL, or some other text.
isoformat(ts) == [kind |-> "iso", ts |-> ts]
NullText == [kind |-> "null", ts |-> 0]
OtherText == [kind |-> "text", ts |-> 0]

\* datetime.fromisoformat(text) succeeds (it raises ValueError otherwise)
IsIsoFormat(text) == text.kind = "iso"

\* datetime.fromisoformat(text) when it succeeds
fromisoformat(text) == text.ts

NoFrame ==
    [op |-> "none", category |-> "none", lock |-> 0, blocked |-> FALSE, idx |-> 0,
     models |-> <<>>, source_used |-> None, error |-> None, count |-> 0,
     counted_on |-> -1]

NoObservation == [op |-> "none", category |-> "none", at |-> 0, value |-> FALSE]

NoResult ==
    [kind |-> "none", category |-> "none", at |-> "none", blocked |-> FALSE,
     refreshed |-> FALSE, source |-> None, models_updated |-> 0, error |-> None]

\* init_db.seed_sota_models: the rows the store holds before the cache runs.
SeedRows ==
    (<<"x", "-", "2">> :>
        [name |-> <<"X", " ", "2">>, category |-> "llm_api", release_date |-> "2025-12-16",
         source |-> "manual", source_url |-> None, is_sota |-> TRUE,
         is_open_source |-> FALSE, sota_rank |-> 1, sota_rank_open |-> 0,
         metrics |-> "seed", last_updated |-> 0])
    @@
    (<<"m", "-", "1">> :>
        [name |-> <<"M", "-", "1">>, category |-> "llm_local", release_date |-> "2025-06-01",
         source |-> "manual", source_url |-> None, is_sota |-> TRUE,
         is_open_source |-> TRUE, sota_rank |-> 1, sota_rank_open |-> 1,
         metrics |-> "seed", last_updated |-> 0])

\* Python values of the types a caller can pass for a numeric argument.
PyNone == [type |-> "NoneType", v |-> 0]
PyInt(n) == [type |-> "int", v |-> n]
PyBool(b) == [type |-> "bool", v |-> IF b THEN 1 ELSE 0]
PyFloat(n) == [type |-> "float", v |-> n]
PyStr(chars) == [type |-> "str", v |-> chars]

\* utils.hardware.DEFAULT_PROFILE as the module defines it.
DEFAULT_PROFILE_at_import ==
    [gpu |-> "Unknown", vram_gb |-> PyInt(8), ram_gb |-> PyInt(16), cpu_threads |-> PyInt(4),
     preferences |-> [uncensored |-> FALSE, local_first |-> TRUE, cost_sensitive |-> TRUE]]

\* load_hardware_profiles() when the file does not exist.
NoProfiles == [current |-> None, profiles |-> <<>>]

\* init_db.create_schema: the columns of CREATE TABLE models.
create_schema_columns ==
    {"id", "name", "category", "release_date", "source", "source_url", "is_sota",
     "is_open_source", "sota_rank", "sota_rank_open", "metrics", "last_updated"}

\* A fresh process over a database made by init_db.py: no connection is open,
\* no hardware profile is configured, no migration is recorded.
InitElsewhere ==
    /\ connections = {}
    /\ hardware_profiles = NoProfiles
    /\ DEFAULT_PROFILE = DEFAULT_PROFILE_at_import
    /\ models_columns = create_schema_columns
    /\ schema_version = <<>>
    /\ cache_manager = 0
    /\ cache_manager_lock = 0
    /\ constructed = <<>>

Init ==
    /\ InitElsewhere
    /\ scope \in Scenarios
    /\ now = 0
    /\ refresh_lock = 0
    /\ category_locks = <<>>
    /\ lock_owner = <<>>
    /\ cache_status = <<>>
    /\ models_table = SeedRows
    /\ pc = [t \in Threads |-> "idle"]
    /\ frame = [t \in Threads |-> NoFrame]
    /\ result = [t \in Threads |-> NoResult]
    /\ invoked = [t \in Threads |-> <<>>]
    /\ fetched_calls = [c \in scope.categories |-> 0]
    /\ disturbed = [c \in scope.categories |-> FALSE]
    /\ observed = NoObservation

\* ------------------------------------------------------------------------
\* Store operations
\* ------------------------------------------------------------------------
\* The freshness re-check left out: every caller takes the cache for stale.
is_cache_fresh_no_recheck(category) == FALSE

\* Freshness as a rolling window: fresh while less than one day's worth of
\* time has passed since the stamp.
is_cache_fresh_rolling_window(category) ==
    IF category \notin DOMAIN cache_status
    THEN FALSE
    ELSE IF cache_status[category].last_fetched = NullText
    THEN FALSE
    ELSE IF ~IsIsoFormat(cache_status[category].last_fetched)
    THEN FALSE
    ELSE now - fromisoformat(cache_status[category].last_fetched) < TicksPerDay

\* The except branch answering True: a stamp that cannot be parsed counts
\* as fresh.
is_cache_fresh_unparsable_is_fresh(category) ==
    IF category \notin DOMAIN cache_status
    THEN FALSE
    ELSE IF cache_status[category].last_fetched = NullText
    THEN FALSE
    ELSE IF ~IsIsoFormat(cache_status[category].last_fetched)
    THEN TRUE
    ELSE DateOf(fromisoformat(cache_status[category].last_fetched)) = DateOf(now)

\* Freshness that looks at the success flag: a row stamped by a failed
\* attempt does not count as fresh.
is_cache_fresh_successful_only(category) ==
    IF category \notin DOMAIN cache_status
    THEN FALSE
    ELSE IF cache_status[category].last_fetched = NullText
    THEN FALSE
    ELSE IF ~IsIsoFormat(cache_status[category].last_fetched)
    THEN FALSE
    ELSE /\ cache_status[category].fetch_success
         /\ DateOf(fromisoformat(cache_status[category].last_fetched)) = DateOf(now)

\* CacheManager.is_cache_fresh
is_cache_fresh(category) ==
    IF category \notin DOMAIN cache_status
    THEN FALSE
    ELSE IF cache_status[category].last_fetched = NullText
    THEN FALSE
    ELSE IF ~IsIsoFormat(cache_status[category].last_fetched)
    THEN FALSE
    ELSE DateOf(fromisoformat(cache_status[category].last_fetched)) = DateOf(now)

\* NULL in the INTEGER columns sota_rank and sota_rank_open (ranks count from 1).
NullRank == 0

\* The row one INSERT OR REPLACE of CacheManager._update_models writes;
\* columns the statement does not name take the schema default (NULL).
ModelRow(category, model, ts) ==
    [name |-> model.name,
     category |-> IF model.category = "absent" THEN category ELSE model.category,
     release_date |-> None, source |-> "auto", source_url |-> None, is_sota |-> TRUE,
     is_open_source |-> model.is_open_source, sota_rank |-> model.sota_rank,
     sota_rank_open |-> NullRank, metrics |-> model.metrics, last_updated |-> ts]

\* INSERT OR REPLACE keyed by the primary key
Upsert(table, key, row) ==
    [k \in DOMAIN table \cup {key} |-> IF k = key THEN row ELSE table[k]]

\* An upsert that updates the named columns only (ON CONFLICT(id) DO UPDATE):
\* the columns the statement does not name keep the old row's values.
InsertOrUpdateModel(table, id, row) ==
    IF id \in DOMAIN table
    THEN Upsert(table, id,
                [row EXCEPT !.release_date = table[id].release_date,
                            !.source_url = table[id].source_url,
                            !.sota_rank_open = table[id].sota_rank_open])
    ELSE Upsert(table, id, row)

\* INSERT OR REPLACE INTO models: a row with the same id is deleted and the
\* new row inserted.
InsertOrReplaceModel(table, id, row) == Upsert(table, id, row)

\* The batch written as a replacement of the category's rows: the rows the
\* store holds for the category are deleted, then the records are upserted.
update_models_replaces_category(table, category, models, ts) ==
    LET kept == {k \in DOMAIN table : table[k].category # category}
        ids == {models[i].id : i \in 1..Len(models)}
        last(id) == models[CHOOSE i \in 1..Len(models) :
                              /\ models[i].id = id
                              /\ \A j \in (i + 1)..Len(models) : models[j].id # id]
    IN  [k \in kept \cup ids |->
            IF k \in ids THEN ModelRow(category, last(k), ts) ELSE table[k]]

\* CacheManager._update_models: the loop of upserts, committed as one batch.
RECURSIVE update_models(_, _, _, _)
update_models(table, category, models, ts) ==
    IF models = <<>> THEN table
    ELSE update_models(InsertOrReplaceModel(table, Head(models).id,
                                            ModelRow(category, Head(models), ts)),
                       category, Tail(models), ts)

\* The status row written for successful attempts only.
update_cache_status_success_only(table, category, source, success, error, ts) ==
    IF success
    THEN Upsert(table, category,
                [last_fetched |-> isoformat(ts), fetch_source |-> source,
                 fetch_success |-> success, error_message |-> error])
    ELSE table

\* CacheManager._update_cache_status
update_cache_status(table, category, source, success, error, ts) ==
    Upsert(table, category,
           [last_fetched |-> isoformat(ts), fetch_source |-> source,
            fetch_success |-> success, error_message |-> error])

\* The category codes of the model in the order ORDER BY category gives them
\* ("threed" stands for "3d", which sorts before the letters).
CategoryOrder ==
    <<"threed", "image_edit", "llm_api", "llm_coding", "llm_local", "music",
      "no_such_category">>

\* CacheManager.get_cache_status:
\* SELECT * FROM cache_status ORDER BY category, each row as a dict.
get_cache_status ==
    LET present == SelectSeq(CategoryOrder, LAMBDA c : c \in DOMAIN cache_status)
    IN  [i \in 1..Len(present) |->
            [category |-> present[i],
             last_fetched |-> cache_status[present[i]].last_fetched,
             fetch_source |-> cache_status[present[i]].fetch_source,
             fetch_success |-> cache_status[present[i]].fetch_success,
             error_message |-> cache_status[present[i]].error_message]]

\* DELETE FROM cache_status WHERE category = ?
delete_cache_status(table, category) ==
    [k \in DOMAIN table \ {category} |-> table[k]]

\* ------------------------------------------------------------------------
\* Leaving a call
\* ------------------------------------------------------------------------
Dict(t, refreshed, source, count, error) ==
    [kind |-> "dict", category |-> frame[t].category, at |-> pc[t],
     blocked |-> frame[t].blocked,
     refreshed |-> refreshed, source |-> source, models_updated |-> count,
     error |-> error]

Exception(t, what) ==
    [kind |-> "raised", category |-> frame[t].category, at |-> pc[t],
     blocked |-> frame[t].blocked,
     refreshed |-> FALSE, source |-> None, models_updated |-> 0, error |-> what]

\* A return that leaves "with lock:" without releasing the lock.
LeaveKeepsLock(t, res) ==
    /\ pc' = [pc EXCEPT ![t] = "done"]
    /\ result' = [result EXCEPT ![t] = res]
    /\ frame' = [frame EXCEPT ![t] = NoFrame]
    /\ invoked' = [invoked EXCEPT ![t] = <<>>]
    /\ lock_owner' = lock_owner

\* return / raise out of the call; leaving "with lock:" releases the lock.
Leave(t, res) ==
    /\ pc' = [pc EXCEPT ![t] = "done"]
    /\ result' = [result EXCEPT ![t] = res]
    /\ frame' = [frame EXCEPT ![t] = NoFrame]
    /\ invoked' = [invoked EXCEPT ![t] = <<>>]
    /\ lock_owner' = [lock_owner EXCEPT ![frame[t].lock] = 0]

\* ------------------------------------------------------------------------
\* Actions
\* ------------------------------------------------------------------------
\* A request thread enters refresh_if_stale(c) and, in _get_category_lock,
\* enters "with self._refresh_lock:".
CallRefresh(t) ==
    /\ pc[t] = "idle"
    /\ "refresh_if_stale" \in scope.ops
    /\ refresh_lock = 0
    /\ \E c \in scope.categories :
          frame' = [frame EXCEPT ![t] =
                       [NoFrame EXCEPT !.op = "refresh_if_stale", !.category = c]]
    /\ refresh_lock' = t
    /\ pc' = [pc EXCEPT ![t] = "in_refresh_lock"]
    /\ UNCHANGED <<elsewhere, observed, scope, now, category_locks, lock_owner, cache_status,
                   models_table, result, invoked, fetched_calls, disturbed>>

\* force_refresh without its DELETE: the status row is left as it is.
CallForceKeepsRow(t) ==
    /\ pc[t] = "idle"
    /\ "force_refresh" \in scope.ops
    /\ \E c \in scope.categories :
          /\ frame' = [frame EXCEPT ![t] =
                          [NoFrame EXCEPT !.op = "force_refresh", !.category = c]]
          /\ disturbed' = [disturbed EXCEPT ![c] = TRUE]
    /\ pc' = [pc EXCEPT ![t] = "get_lock"]
    /\ UNCHANGED <<elsewhere, observed, scope, now, refresh_lock, category_locks, lock_owner, cache_status,
                   models_table, result, invoked, fetched_calls>>

\* A request thread enters force_refresh(c): DELETE the status row and commit.
CallForce(t) ==
    /\ pc[t] = "idle"
    /\ "force_refresh" \in scope.ops
    /\ \E c \in scope.categories :
          /\ frame' = [frame EXCEPT ![t] =
                          [NoFrame EXCEPT !.op = "force_refresh", !.category = c]]
          /\ cache_status' = delete_cache_status(cache_status, c)
          /\ disturbed' = [disturbed EXCEPT ![c] = TRUE]
    /\ pc' = [pc EXCEPT ![t] = "get_lock"]
    /\ UNCHANGED <<elsewhere, observed, scope, now, refresh_lock, category_locks, lock_owner,
                   models_table, result, invoked, fetched_calls>>

\* force_refresh: the DELETE raises; the exception leaves force_refresh.
CallForceFails(t) ==
    /\ pc[t] = "idle"
    /\ "force_refresh" \in scope.ops
    /\ scope.store_fails
    /\ \E c \in scope.categories :
          /\ result' = [result EXCEPT ![t] =
                           [NoResult EXCEPT !.kind = "raised", !.category = c,
                                            !.at = "delete", !.error = "StoreError"]]
          /\ disturbed' = [disturbed EXCEPT ![c] = TRUE]
    /\ pc' = [pc EXCEPT ![t] = "done"]
    /\ UNCHANGED <<elsewhere, observed, scope, now, refresh_lock, category_locks, lock_owner, cache_status,
                   models_table, frame, invoked, fetched_calls>>

\* force_refresh delegates to refresh_if_stale: _get_category_lock enters
\* "with self._refresh_lock:".
AcquireRefreshLock(t) ==
    /\ pc[t] = "get_lock"
    /\ refresh_lock = 0
    /\ refresh_lock' = t
    /\ pc' = [pc EXCEPT ![t] = "in_refresh_lock"]
    /\ UNCHANGED <<elsewhere, observed, scope, now, category_locks, lock_owner, cache_status, models_table,
                   frame, result, invoked, fetched_calls, disturbed>>

\* _get_category_lock without the "if category not in" test: a new lock
\* object replaces the one in the map on every call.
GetCategoryLockAlwaysNew(t) ==
    /\ pc[t] = "in_refresh_lock"
    /\ LET c == frame[t].category
           fresh == Cardinality(DOMAIN lock_owner) + 1
       IN  /\ category_locks' = Upsert(category_locks, c, fresh)
           /\ lock_owner' = Upsert(lock_owner, fresh, 0)
           /\ frame' = [frame EXCEPT ![t].lock = fresh]
    /\ refresh_lock' = 0
    /\ pc' = [pc EXCEPT ![t] = "wait_lock"]
    /\ UNCHANGED <<elsewhere, observed, scope, now, cache_status, models_table, result, invoked, fetched_calls,
                   disturbed>>

\* _get_category_lock handing out one lock object for every category.
GetCategoryLockShared(t) ==
    /\ pc[t] = "in_refresh_lock"
    /\ LET c == frame[t].category
       IN  /\ category_locks' = Upsert(category_locks, c, 1)
           /\ lock_owner' = IF 1 \in DOMAIN lock_owner THEN lock_owner
                            ELSE Upsert(lock_owner, 1, 0)
           /\ frame' = [frame EXCEPT ![t].lock = 1,
                                     ![t].blocked = lock_owner'[1] # 0]
    /\ refresh_lock' = 0
    /\ pc' = [pc EXCEPT ![t] = "wait_lock"]
    /\ UNCHANGED <<elsewhere, observed, scope, now, cache_status, models_table, result, invoked,
                   fetched_calls, disturbed>>

\* _get_category_lock creating the lock only for the first caller and
\* handing every later caller a lock object of its own, kept out of the map.
GetCategoryLockPerCaller(t) ==
    /\ pc[t] = "in_refresh_lock"
    /\ LET c == frame[t].category
           fresh == Cardinality(DOMAIN lock_owner) + 1
       IN  /\ category_locks' = IF c \in DOMAIN category_locks THEN category_locks
                                 ELSE Upsert(category_locks, c, fresh)
           /\ lock_owner' = Upsert(lock_owner, fresh, 0)
           /\ frame' = [frame EXCEPT ![t].lock = fresh]
    /\ refresh_lock' = 0
    /\ pc' = [pc EXCEPT ![t] = "wait_lock"]
    /\ UNCHANGED <<elsewhere, observed, scope, now, cache_status, models_table, result, invoked, fetched_calls,
                   disturbed>>

\* _get_category_lock: create the lock if absent, return it, leave the with block.
GetCategoryLock(t) ==
    /\ pc[t] = "in_refresh_lock"
    /\ LET c == frame[t].category
           fresh == Cardinality(DOMAIN lock_owner) + 1
       IN  /\ IF c \notin DOMAIN category_locks
              THEN /\ category_locks' = Upsert(category_locks, c, fresh)
                   /\ lock_owner' = Upsert(lock_owner, fresh, 0)
              ELSE UNCHANGED <<category_locks, lock_owner>>
           /\ frame' = [frame EXCEPT ![t].lock = category_locks'[c],
                                     ![t].blocked = lock_owner'[category_locks'[c]] # 0]
    /\ refresh_lock' = 0
    /\ pc' = [pc EXCEPT ![t] = "wait_lock"]
    /\ UNCHANGED <<elsewhere, observed, scope, now, cache_status, models_table, result, invoked, fetched_calls,
                   disturbed>>

\* refresh_if_stale: "with lock:" entered.
AcquireLock(t) ==
    /\ pc[t] = "wait_lock"
    /\ lock_owner[frame[t].lock] = 0
    /\ lock_owner' = [lock_owner EXCEPT ![frame[t].lock] = t]
    /\ pc' = [pc EXCEPT ![t] = "check_fresh"]
    /\ UNCHANGED <<elsewhere, observed, scope, now, refresh_lock, category_locks, cache_status, models_table,
                   frame, result, invoked, fetched_calls, disturbed>>

\* refresh_if_stale: the freshness re-check inside the lock and the lookup
\* of the category's sources.
CheckFresh(t) ==
    /\ pc[t] = "check_fresh"
    /\ IF is_cache_fresh(frame[t].category)
       THEN Leave(t, Dict(t, FALSE, "cache", 0, None))
       ELSE /\ pc' = [pc EXCEPT ![t] =
                        IF SourcesOf(frame[t].category) = <<>>
                        THEN "stamp_manual" ELSE "fetch"]
            /\ frame' = [frame EXCEPT ![t].idx = 1]
            /\ UNCHANGED <<lock_owner, result, invoked>>
    /\ UNCHANGED <<elsewhere, observed, scope, now, refresh_lock, category_locks, cache_status, models_table,
                   fetched_calls, disturbed>>

\* refresh_if_stale: no automatic source, stamp "manual" and return.
StampManual(t) ==
    /\ pc[t] = "stamp_manual"
    /\ cache_status' = update_cache_status(cache_status, frame[t].category,
                                           "manual", TRUE, None, now)
    /\ Leave(t, Dict(t, TRUE, "manual", 0, None))
    /\ UNCHANGED <<elsewhere, observed, scope, now, refresh_lock, category_locks, models_table,
                   fetched_calls, disturbed>>

\* The loop without its break: a later source is tried after one gave data,
\* and its records are added to the batch.
AfterFetchNoBreak(f, source, r) ==
    LET next == IF f.idx = Len(SourcesOf(f.category)) THEN 0 ELSE f.idx + 1
    IN  IF ~r.raised /\ r.value # <<>>
        THEN [f EXCEPT !.models = f.models \o r.value, !.source_used = source,
                       !.idx = next]
        ELSE [f EXCEPT !.error = IF r.raised THEN r.message ELSE f.error,
                       !.idx = next]

\* source_used assigned at the top of the loop body instead of on success.
AfterFetchRecordsSource(f, source, r) ==
    IF ~r.raised /\ r.value # <<>>
    THEN [f EXCEPT !.models = f.models \o r.value, !.source_used = source, !.idx = 0]
    ELSE [f EXCEPT !.source_used = source,
                   !.error = IF r.raised THEN r.message ELSE f.error,
                   !.idx = IF f.idx = Len(SourcesOf(f.category)) THEN 0 ELSE f.idx + 1]

\* The frame and position after one iteration of "for source in sources".
AfterFetch(f, source, r) ==
    IF ~r.raised /\ r.value # <<>>
    THEN [f EXCEPT !.models = f.models \o r.value, !.source_used = source, !.idx = 0]
    ELSE [f EXCEPT !.error = IF r.raised THEN r.message ELSE f.error,
                   !.idx = IF f.idx = Len(SourcesOf(f.category)) THEN 0 ELSE f.idx + 1]

\* The loop body without its try/except: a fetcher's exception leaves
\* refresh_if_stale.
FetchSourceUnguarded(t) ==
    /\ pc[t] = "fetch"
    /\ LET f == frame[t]
           source == SourcesOf(f.category)[f.idx]
       IN  \E r \in fetch_from_source(source, f.category) :
              /\ fetched_calls' = [fetched_calls EXCEPT ![f.category] =
                                      IF f.counted_on = DateOf(now) THEN @ ELSE @ + 1]
              /\ IF r.raised
                 THEN Leave(t, Exception(t, r.message))
                 ELSE /\ invoked' = [invoked EXCEPT ![t] =
                                        Append(@, [source |-> source,
                                                   outcome |-> IF r.value = <<>>
                                                               THEN "empty" ELSE "data"])]
                      /\ frame' = [frame EXCEPT ![t] =
                                        [AfterFetch(f, source, r)
                                            EXCEPT !.counted_on = DateOf(now)]]
                      /\ pc' = [pc EXCEPT ![t] =
                                    IF frame'[t].idx # 0 THEN "fetch"
                                    ELSE IF frame'[t].models # <<>> THEN "update_models"
                                    ELSE "stamp_failure"]
                      /\ UNCHANGED <<lock_owner, result>>
    /\ UNCHANGED <<elsewhere, observed, scope, now, refresh_lock, category_locks, cache_status,
                   models_table, disturbed>>

\* refresh_if_stale: one iteration of the loop over the sources.
FetchSource(t) ==
    /\ pc[t] = "fetch"
    /\ LET f == frame[t]
           source == SourcesOf(f.category)[f.idx]
       IN  \E r \in fetch_from_source(source, f.category) :
              /\ frame' = [frame EXCEPT ![t] =
                                [AfterFetch(f, source, r) EXCEPT !.counted_on = DateOf(now)]]
              /\ invoked' = [invoked EXCEPT ![t] =
                                Append(@, [source |-> source,
                                           outcome |-> IF r.raised THEN "raised"
                                                       ELSE IF r.value = <<>> THEN "empty"
                                                       ELSE "data"])]
              /\ fetched_calls' = [fetched_calls EXCEPT ![f.category] =
                                      IF f.counted_on = DateOf(now) THEN @ ELSE @ + 1]
              /\ pc' = [pc EXCEPT ![t] =
                            IF frame'[t].idx # 0 THEN "fetch"
                            ELSE IF frame'[t].models # <<>> THEN "update_models"
                            ELSE "stamp_failure"]
    /\ UNCHANGED <<elsewhere, observed, scope, now, refresh_lock, category_locks, lock_owner, cache_status,
                   models_table, result, disturbed>>

\* The two writes of the success branch the other way round: the status row
\* is stamped where the batch should be written, and the batch is left out.
UpdateModelsStampsFirst(t) ==
    /\ pc[t] = "update_models"
    /\ cache_status' = update_cache_status(cache_status, frame[t].category,
                                           frame[t].source_used, TRUE, None, now)
    /\ frame' = [frame EXCEPT ![t].count = Len(frame[t].models)]
    /\ pc' = [pc EXCEPT ![t] = "stamp_success"]
    /\ UNCHANGED <<elsewhere, observed, scope, now, refresh_lock, category_locks, lock_owner,
                   models_table, result, invoked, fetched_calls, disturbed>>

\* The batch counting the rows it wrote (one per distinct identifier)
\* instead of the records it was given.
UpdateModelsCountsRows(t) ==
    /\ pc[t] = "update_models"
    /\ models_table' = update_models(models_table, frame[t].category,
                                     frame[t].models, now)
    /\ frame' = [frame EXCEPT ![t].count =
                    Cardinality({frame[t].models[i].id : i \in 1..Len(frame[t].models)})]
    /\ pc' = [pc EXCEPT ![t] = "stamp_success"]
    /\ UNCHANGED <<elsewhere, observed, scope, now, refresh_lock, category_locks, lock_owner, cache_status,
                   result, invoked, fetched_calls, disturbed>>

\* refresh_if_stale: count = self._update_models(category, models)
UpdateModels(t) ==
    /\ pc[t] = "update_models"
    /\ models_table' = update_models(models_table, frame[t].category,
                                     frame[t].models, now)
    /\ frame' = [frame EXCEPT ![t].count = Len(frame[t].models)]
    /\ pc' = [pc EXCEPT ![t] = "stamp_success"]
    /\ UNCHANGED <<elsewhere, observed, scope, now, refresh_lock, category_locks, lock_owner, cache_status,
                   result, invoked, fetched_calls, disturbed>>

\* The success branch passing the loop's last captured error on to the
\* stamp and the result instead of None.
StampSuccessKeepsError(t) ==
    /\ pc[t] = "stamp_success"
    /\ cache_status' = update_cache_status(cache_status, frame[t].category,
                                           frame[t].source_used, TRUE,
                                           frame[t].error, now)
    /\ Leave(t, Dict(t, TRUE, frame[t].source_used, frame[t].count, frame[t].error))
    /\ UNCHANGED <<elsewhere, observed, scope, now, refresh_lock, category_locks, models_table,
                   fetched_calls, disturbed>>

\* refresh_if_stale: stamp the winning source and return.
StampSuccess(t) ==
    /\ pc[t] = "stamp_success"
    /\ cache_status' = update_cache_status(cache_status, frame[t].category,
                                           frame[t].source_used, TRUE, None, now)
    /\ Leave(t, Dict(t, TRUE, frame[t].source_used, frame[t].count, None))
    /\ UNCHANGED <<elsewhere, observed, scope, now, refresh_lock, category_locks, models_table,
                   fetched_calls, disturbed>>

\* The failure branch also dropping the category's rows instead of keeping
\* the old data.
StampFailureDropsRows(t) ==
    /\ pc[t] = "stamp_failure"
    /\ cache_status' = update_cache_status(cache_status, frame[t].category,
                                           frame[t].source_used, FALSE,
                                           frame[t].error, now)
    /\ models_table' = [k \in {i \in DOMAIN models_table :
                                  models_table[i].category # frame[t].category}
                           |-> models_table[k]]
    /\ Leave(t, Dict(t, FALSE, frame[t].source_used, 0,
                     IF frame[t].error # None THEN frame[t].error
                     ELSE "No data returned from sources"))
    /\ UNCHANGED <<elsewhere, observed, scope, now, refresh_lock, category_locks,
                   fetched_calls, disturbed>>

\* refresh_if_stale: all sources failed, stamp the attempt and return.
StampFailure(t) ==
    /\ pc[t] = "stamp_failure"
    /\ cache_status' = update_cache_status(cache_status, frame[t].category,
                                           frame[t].source_used, FALSE,
                                           frame[t].error, now)
    /\ Leave(t, Dict(t, FALSE, frame[t].source_used, 0,
                     IF frame[t].error # None THEN frame[t].error
                     ELSE "No data returned from sources"))
    /\ UNCHANGED <<elsewhere, observed, scope, now, refresh_lock, category_locks, models_table,
                   fetched_calls, disturbed>>

\* Each record committed on its own: a failure in the middle of the batch
\* leaves the records written before it in the store.
StoreWriteFailsAfterCommit(t) ==
    /\ pc[t] \in {"update_models", "stamp_success", "stamp_failure", "stamp_manual"}
    /\ scope.store_fails
    /\ disturbed' = [disturbed EXCEPT ![frame[t].category] = TRUE]
    /\ models_table' = IF pc[t] = "update_models"
                       THEN update_models(models_table, frame[t].category,
                                          <<Head(frame[t].models)>>, now)
                       ELSE models_table
    /\ Leave(t, Exception(t, "StoreError"))
    /\ UNCHANGED <<elsewhere, observed, scope, now, refresh_lock, category_locks, cache_status,
                   fetched_calls>>

\* A store write (the DELETE, the batch of upserts or a status stamp) raises:
\* nothing is committed and the exception leaves the call.
StoreWriteFails(t) ==
    /\ pc[t] \in {"update_models", "stamp_success", "stamp_failure", "stamp_manual"}
    /\ scope.store_fails
    /\ disturbed' = [disturbed EXCEPT ![frame[t].category] = TRUE]
    /\ Leave(t, Exception(t, "StoreError"))
    /\ UNCHANGED <<elsewhere, observed, scope, now, refresh_lock, category_locks, cache_status, models_table,
                   fetched_calls>>

\* The process clock advances; at midnight the per-date bookkeeping restarts.
Tick ==
    /\ now < MaxTime
    /\ now' = now + 1
    /\ IF DateOf(now + 1) # DateOf(now)
       THEN /\ fetched_calls' = [c \in scope.categories |-> 0]
            /\ disturbed' = [c \in scope.categories |-> FALSE]
       ELSE UNCHANGED <<fetched_calls, disturbed>>
    /\ UNCHANGED <<elsewhere, observed, scope, refresh_lock, category_locks, lock_owner, cache_status,
                   models_table, pc, frame, result, invoked>>

Next ==
    \/ \E t \in Threads : CallRefresh(t)
    \/ \E t \in Threads : CallForce(t)
    \/ \E t \in Threads : CallForceFails(t)
    \/ \E t \in Threads : AcquireRefreshLock(t)
    \/ \E t \in Threads : GetCategoryLock(t)
    \/ \E t \in Threads : AcquireLock(t)
    \/ \E t \in Threads : CheckFresh(t)
    \/ \E t \in Threads : StampManual(t)
    \/ \E t \in Threads : FetchSource(t)
    \/ \E t \in Threads : UpdateModels(t)
    \/ \E t \in Threads : StampSuccess(t)
    \/ \E t \in Threads : StampFailure(t)
    \/ \E t \in Threads : StoreWriteFails(t)
    \/ Tick

Spec == Init /\ [][Next]_vars

\* ------------------------------------------------------------------------
\* Progress.  A thread inside a call goes on: the dictionary lookup, the
\* freshness check, every fetcher call and every store operation end (by a
\* return or by an exception); a lock that is free again and again is
\* eventually given to a thread that waits for it.
\* ------------------------------------------------------------------------
Terminates(t) ==
    \/ GetCategoryLock(t)
    \/ CheckFresh(t)
    \/ StampManual(t)
    \/ FetchSource(t)
    \/ UpdateModels(t)
    \/ StampSuccess(t)
    \/ StampFailure(t)
    \/ StoreWriteFails(t)

Fairness ==
    \A t \in Threads :
        /\ WF_vars(Terminates(t))
        /\ SF_vars(AcquireRefreshLock(t))
        /\ SF_vars(AcquireLock(t))

\* The workloads in which a call can leave by each of its exits, the store's
\* exception included.
InitFair == Init /\ scope.store_fails

SpecFair == InitFair /\ [][Next]_vars /\ Fairness

\* ------------------------------------------------------------------------
\* The read operations, called on a store whose cache_status rows may have
\* been left by any writer of the database file: stamped at any instant,
\* with a NULL last_fetched, or with text that is not a timestamp.
\* ------------------------------------------------------------------------
ReadCategories == {"llm_api", "music"}

StoredTimestamps == {NullText, OtherText} \cup {isoformat(ts) : ts \in 0..MaxTime}

StatusTables ==
    UNION { [cats -> [last_fetched : StoredTimestamps, fetch_source : {"manual"},
                      fetch_success : {TRUE}, error_message : {None}]] :
            cats \in SUBSET ReadCategories }

InitReads ==
    /\ InitElsewhere
    /\ scope = [categories |-> ReadCategories, ops |-> {}, store_fails |-> FALSE]
    /\ now = 0
    /\ refresh_lock = 0
    /\ category_locks = <<>>
    /\ lock_owner = <<>>
    /\ cache_status \in StatusTables
    /\ models_table = SeedRows
    /\ pc = [t \in Threads |-> "idle"]
    /\ frame = [t \in Threads |-> NoFrame]
    /\ result = [t \in Threads |-> NoResult]
    /\ invoked = [t \in Threads |-> <<>>]
    /\ fetched_calls = [c \in scope.categories |-> 0]
    /\ disturbed = [c \in scope.categories |-> FALSE]
    /\ observed = NoObservation

\* A caller runs is_cache_fresh(c) and gets its answer.
IsCacheFresh(c) ==
    /\ observed' = [op |-> "is_cache_fresh", category |-> c, at |-> now,
                    value |-> is_cache_fresh(c)]
    /\ UNCHANGED <<elsewhere, scope, now, refresh_lock, category_locks, lock_owner, cache_status,
                   models_table, pc, frame, result, invoked, fetched_calls, disturbed>>

\* A caller runs get_cache_status() and gets the list of rows.
GetCacheStatus ==
    /\ observed' = [op |-> "get_cache_status", category |-> "all", at |-> now,
                    value |-> get_cache_status]
    /\ UNCHANGED <<elsewhere, scope, now, refresh_lock, category_locks, lock_owner, cache_status,
                   models_table, pc, frame, result, invoked, fetched_calls, disturbed>>

NextReads ==
    \/ \E c \in scope.categories : IsCacheFresh(c)
    \/ GetCacheStatus
    \/ Tick

SpecReads == InitReads /\ [][NextReads]_vars

\* ------------------------------------------------------------------------
\* Single-threaded execution: the calls run one after the other, a call
\* starts only when no other call is in progress.
\* ------------------------------------------------------------------------
Alone(t) == \A u \in Threads \ {t} : pc[u] \in {"idle", "done"}

NextSingleThreaded ==
    \/ \E t \in Threads : Alone(t) /\ CallRefresh(t)
    \/ \E t \in Threads : Alone(t) /\ CallForce(t)
    \/ \E t \in Threads : Alone(t) /\ CallForceFails(t)
    \/ \E t \in Threads : Alone(t) /\ AcquireRefreshLock(t)
    \/ \E t \in Threads : Alone(t) /\ GetCategoryLock(t)
    \/ \E t \in Threads : Alone(t) /\ AcquireLock(t)
    \/ \E t \in Threads : Alone(t) /\ CheckFresh(t)
    \/ \E t \in Threads : Alone(t) /\ StampManual(t)
    \/ \E t \in Threads : Alone(t) /\ FetchSource(t)
    \/ \E t \in Threads : Alone(t) /\ UpdateModels(t)
    \/ \E t \in Threads : Alone(t) /\ StampSuccess(t)
    \/ \E t \in Threads : Alone(t) /\ StampFailure(t)
    \/ \E t \in Threads : Alone(t) /\ StoreWriteFails(t)
    \/ Tick

SpecSingleThreaded == Init /\ [][NextSingleThreaded]_vars

\* ------------------------------------------------------------------------
\* Store connections: "with get_db_context() as db: body" as the cache
\* manager's store operations (CacheManager.get_db_context) and migrate /
\* status (utils.db.get_db_context) run it.  Each caller runs one such
\* operation; the callers interleave.
\* ------------------------------------------------------------------------
\* The cache manager's variables when no refresh is running and no caller
\* has a workload.
NoWorkload == [categories |-> {}, ops |-> {}, store_fails |-> FALSE]

InitAtRest ==
    /\ scope = NoWorkload
    /\ now = 0
    /\ refresh_lock = 0
    /\ category_locks = <<>>
    /\ lock_owner = <<>>
    /\ cache_status = <<>>
    /\ models_table = SeedRows
    /\ pc = [t \in Threads |-> "idle"]
    /\ frame = [t \in Threads |-> NoFrame]
    /\ result = [t \in Threads |-> NoResult]
    /\ invoked = [t \in Threads |-> <<>>]
    /\ fetched_calls = <<>>
    /\ disturbed = <<>>

\* The tables, locks and clock of the cache manager.
tables_and_locks ==
    <<scope, now, refresh_lock, category_locks, lock_owner, cache_status, models_table,
      invoked, fetched_calls, disturbed, singleton>>

\* The two context managers.
DbContexts == {"CacheManager.get_db_context", "utils.db.get_db_context"}

InitDb == InitAtRest /\ InitElsewhere /\ observed = NoObservation

\* The operation returns, or an exception leaves it, at the statement `at`.
DbLeave(t, kind, at) ==
    /\ pc' = [pc EXCEPT ![t] = "done"]
    /\ result' = [result EXCEPT ![t] = [NoResult EXCEPT !.kind = kind, !.at = at]]

\* db = sqlite3.connect(...); db.row_factory = sqlite3.Row
DbConnect(t, ctx) ==
    /\ pc[t] = "idle"
    /\ pc' = [pc EXCEPT ![t] = "journal_mode"]
    /\ frame' = [frame EXCEPT ![t] = [NoFrame EXCEPT !.op = ctx]]
    /\ connections' = connections \cup {[by |-> t, ctx |-> ctx]}
    /\ UNCHANGED <<tables_and_locks, result, observed, hardware_profiles, DEFAULT_PROFILE,
                   models_columns, schema_version>>

\* sqlite3.connect raises (the file cannot be opened): there is no connection.
DbConnectFails(t, ctx) ==
    /\ pc[t] = "idle"
    /\ frame' = [frame EXCEPT ![t] = [NoFrame EXCEPT !.op = ctx]]
    /\ DbLeave(t, "raised", "connect")
    /\ UNCHANGED <<tables_and_locks, elsewhere, observed>>

\* db.execute("PRAGMA journal_mode=WAL") succeeds; the generator enters
\* "try:" and yields db to the body.
DbJournalMode(t) ==
    /\ pc[t] = "journal_mode"
    /\ pc' = [pc EXCEPT ![t] = "body"]
    /\ UNCHANGED <<tables_and_locks, elsewhere, frame, result, observed>>

\* db.execute("PRAGMA journal_mode=WAL") raises (database is locked, file is
\* not a database): the statement stands before "try:", so the exception
\* leaves the generator without passing "finally: db.close()".
DbJournalModeFails(t) ==
    /\ pc[t] = "journal_mode"
    /\ DbLeave(t, "raised", "journal_mode")
    /\ UNCHANGED <<tables_and_locks, elsewhere, frame, observed>>

\* "finally: db.close()"
db_close(conns, t) == {c \in conns : c.by # t}

\* The body of the with statement completes; finally closes the connection.
DbBody(t) ==
    /\ pc[t] = "body"
    /\ connections' = db_close(connections, t)
    /\ DbLeave(t, "returned", "body")
    /\ UNCHANGED <<tables_and_locks, frame, observed, hardware_profiles, DEFAULT_PROFILE,
                   models_columns, schema_version>>

\* The body raises; finally closes the connection and the exception goes on.
DbBodyFails(t) ==
    /\ pc[t] = "body"
    /\ connections' = db_close(connections, t)
    /\ DbLeave(t, "raised", "body")
    /\ UNCHANGED <<tables_and_locks, frame, observed, hardware_profiles, DEFAULT_PROFILE,
                   models_columns, schema_version>>

\* The interpreter finalises a connection object nobody refers to any more
\* (the exception that carried its frame has been dropped): sqlite3 closes
\* it then.  When this happens after the raise depends on the interpreter.
DbFinalize(t) ==
    /\ pc[t] = "done"
    /\ \E c \in connections : c.by = t
    /\ connections' = db_close(connections, t)
    /\ UNCHANGED <<tables_and_locks, pc, frame, result, observed, hardware_profiles,
                   DEFAULT_PROFILE, models_columns, schema_version>>

NextDb ==
    \/ \E t \in Threads, ctx \in DbContexts : DbConnect(t, ctx)
    \/ \E t \in Threads, ctx \in DbContexts : DbConnectFails(t, ctx)
    \/ \E t \in Threads : DbJournalMode(t)
    \/ \E t \in Threads : DbJournalModeFails(t)
    \/ \E t \in Threads : DbBody(t)
    \/ \E t \in Threads : DbBodyFails(t)
    \/ \E t \in Threads : DbFinalize(t)

SpecDb == InitDb /\ [][NextDb]_vars

\* ------------------------------------------------------------------------
\* utils/hardware.py: configure_profile over the persisted profiles file.
\* ------------------------------------------------------------------------
\* socket.gethostname()
Hostname == "host"

\* isinstance(x, int): bool is a subclass of int.
isinstance_int(x) == x.type \in {"int", "bool"}

\* not isinstance(x, int) or x <= 0
NotPositiveInt(x) == ~isinstance_int(x) \/ x.v <= 0

\* The arguments the callers pass (None: the argument is left out).
ConfigureArgs ==
    [profile_name : {None, "rig"},
     vram_gb : {PyNone, PyInt(24), PyInt(-1), PyFloat(24)},
     gpu : {None},
     ram_gb : {PyNone, PyInt(32), PyStr(<<"3", "2">>)},
     cpu_threads : {PyNone, PyInt(0)},
     uncensored_preference : {None, "True"},
     local_first : {None},
     cost_sensitive : {None}]

\* The numeric arguments of a call.
NumericArgs(a) == [vram_gb |-> a.vram_gb, ram_gb |-> a.ram_gb, cpu_threads |-> a.cpu_threads]

\* The ValueError configure_profile raises for a field.
ValueError(field) == [raised |-> TRUE, value |-> <<>>, message |-> field]

\* existing[field] = value when the argument is given
SetIfGiven(profile, field, value) ==
    IF value = PyNone THEN profile ELSE [profile EXCEPT ![field] = value]

\* existing["preferences"][key] = value when the argument is given
SetPreference(prefs, key, value) ==
    IF value = None THEN prefs ELSE [prefs EXCEPT ![key] = (value = "True")]

\* profiles["profiles"][profile_name] = existing; profiles["current"] = profile_name
StoreProfile(file, name, profile) ==
    [current |-> name,
     profiles |-> [n \in DOMAIN file.profiles \cup {name} |->
                      IF n = name THEN profile ELSE file.profiles[n]]]

\* configure_profile writing the file after each field it sets, the
\* numeric fields being validated one after the other as in the source.
configure_profile_saves_each_field(file, template, a) ==
    LET name == IF a.profile_name = None THEN Hostname ELSE a.profile_name
        is_new == name \notin DOMAIN file.profiles
        existing == IF is_new THEN template ELSE file.profiles[name]
        with_vram == SetIfGiven(existing, "vram_gb", a.vram_gb)
        with_ram == SetIfGiven(with_vram, "ram_gb", a.ram_gb)
    IN  IF a.vram_gb # PyNone /\ NotPositiveInt(a.vram_gb)
        THEN [file |-> file, template |-> template, outcome |-> ValueError("vram_gb")]
        ELSE IF a.ram_gb # PyNone /\ NotPositiveInt(a.ram_gb)
        THEN [file |-> StoreProfile(file, name, with_vram), template |-> template,
              outcome |-> ValueError("ram_gb")]
        ELSE IF a.cpu_threads # PyNone /\ NotPositiveInt(a.cpu_threads)
        THEN [file |-> StoreProfile(file, name, with_ram), template |-> template,
              outcome |-> ValueError("cpu_threads")]
        ELSE LET fields == SetIfGiven(with_ram, "cpu_threads", a.cpu_threads)
                 prefs == SetPreference(SetPreference(SetPreference(
                              existing.preferences,
                              "uncensored", a.uncensored_preference),
                              "local_first", a.local_first),
                              "cost_sensitive", a.cost_sensitive)
                 profile == [fields EXCEPT !.preferences = prefs,
                                           !.gpu = IF a.gpu = None THEN @ ELSE a.gpu]
             IN  [file |-> StoreProfile(file, name, profile),
                  template |-> IF is_new THEN [template EXCEPT !.preferences = prefs]
                               ELSE template,
                  outcome |-> Returned([profile_name |-> name, profile |-> profile])]

\* configure_profile(profile_name, vram_gb, gpu, ram_gb, cpu_threads,
\* uncensored_preference, local_first, cost_sensitive) over the file's content
\* and the module's template: the file and the template afterwards, and what
\* the call returned or raised.  A profile that is not in the file starts
\* from DEFAULT_PROFILE.copy(), a shallow copy: its "preferences" is the
\* template's own dict, so setting a preference on it sets it in the template.
configure_profile(file, template, a) ==
    LET name == IF a.profile_name = None THEN Hostname ELSE a.profile_name
        is_new == name \notin DOMAIN file.profiles
        existing == IF is_new THEN template ELSE file.profiles[name]
    IN  IF a.vram_gb # PyNone /\ NotPositiveInt(a.vram_gb)
        THEN [file |-> file, template |-> template, outcome |-> ValueError("vram_gb")]
        ELSE IF a.ram_gb # PyNone /\ NotPositiveInt(a.ram_gb)
        THEN [file |-> file, template |-> template, outcome |-> ValueError("ram_gb")]
        ELSE IF a.cpu_threads # PyNone /\ NotPositiveInt(a.cpu_threads)
        THEN [file |-> file, template |-> template, outcome |-> ValueError("cpu_threads")]
        ELSE LET fields == SetIfGiven(SetIfGiven(SetIfGiven(existing,
                                "vram_gb", a.vram_gb),
                                "ram_gb", a.ram_gb),
                                "cpu_threads", a.cpu_threads)
                 prefs == SetPreference(SetPreference(SetPreference(
                              existing.preferences,
                              "uncensored", a.uncensored_preference),
                              "local_first", a.local_first),
                              "cost_sensitive", a.cost_sensitive)
                 profile == [fields EXCEPT !.preferences = prefs,
                                           !.gpu = IF a.gpu = None THEN @ ELSE a.gpu]
             IN  [file |-> StoreProfile(file, name, profile),
                  template |-> IF is_new THEN [template EXCEPT !.preferences = prefs]
                               ELSE template,
                  outcome |-> Returned([profile_name |-> name, profile |-> profile])]

\* Before any call of configure_profile: nothing has been observed.
NoConfigureCall ==
    [op |-> "none", category |-> "none",
     at |-> [vram_gb |-> PyNone, ram_gb |-> PyNone, cpu_threads |-> PyNone],
     value |-> [raised |-> FALSE, value |-> <<>>, message |-> None]]

InitHardware == InitAtRest /\ InitElsewhere /\ observed = NoConfigureCall

\* A caller runs configure_profile(**a).
ConfigureProfile(a) ==
    LET r == configure_profile(hardware_profiles, DEFAULT_PROFILE, a)
    IN  /\ hardware_profiles' = r.file
        /\ DEFAULT_PROFILE' = r.template
        /\ observed' = [op |-> "configure_profile", category |-> "none",
                        at |-> NumericArgs(a),
                        value |-> r.outcome]
        /\ UNCHANGED <<tables_and_locks, pc, frame, result, connections, models_columns,
                       schema_version>>

NextHardware == \E a \in ConfigureArgs : ConfigureProfile(a)

SpecHardware == InitHardware /\ [][NextHardware]_vars

\* ------------------------------------------------------------------------
\* utils/hardware.py: parse_vram_string and vram_fits, over strings as
\* sequences of characters.
\* ------------------------------------------------------------------------
DigitChars == <<"0", "1", "2", "3", "4", "5", "6", "7", "8", "9">>

IsDigit(ch) == \E d \in 1..10 : DigitChars[d] = ch

DigitValue(ch) == (CHOOSE d \in 1..10 : DigitChars[d] = ch) - 1

\* str(n) of a non-negative int
RECURSIVE str_nat(_)
str_nat(n) ==
    IF n < 10 THEN <<DigitChars[n + 1]>>
    ELSE str_nat(n \div 10) \o <<DigitChars[(n % 10) + 1]>>

\* str(x) of an int, a float with zero fraction, or a str
str(x) ==
    CASE x.type = "int" -> IF x.v < 0 THEN <<"-">> \o str_nat(0 - x.v) ELSE str_nat(x.v)
      [] x.type = "float" -> str_nat(x.v) \o <<".", "0">>
      [] OTHER -> x.v

\* int(digits) of a non-empty sequence of digits
RECURSIVE int_of_digits(_)
int_of_digits(s) ==
    IF Len(s) = 1 THEN DigitValue(s[1])
    ELSE 10 * int_of_digits(SubSeq(s, 1, Len(s) - 1)) + DigitValue(s[Len(s)])

AllDigits(s) == s # <<>> /\ \A i \in 1..Len(s) : IsDigit(s[i])

IsSpace(ch) == ch \in {" ", "\t"}

\* str.strip()
RECURSIVE strip(_)
strip(s) ==
    IF s = <<>> THEN s
    ELSE IF IsSpace(Head(s)) THEN strip(Tail(s))
    ELSE IF IsSpace(s[Len(s)]) THEN strip(SubSeq(s, 1, Len(s) - 1))
    ELSE s

\* int(text): PyNone where Python raises ValueError
int_of_text(s) ==
    LET t == strip(s)
    IN  IF AllDigits(t) THEN PyInt(int_of_digits(t))
        ELSE IF t # <<>> /\ Head(t) \in {"-", "+"} /\ AllDigits(Tail(t))
        THEN PyInt(IF Head(t) = "-" THEN 0 - int_of_digits(Tail(t))
                   ELSE int_of_digits(Tail(t)))
        ELSE PyNone

\* The end of the run of digits that starts at i (\d+ is greedy).
DigitsEnd(s, i) ==
    CHOOSE j \in i..Len(s) :
        /\ \A k \in i..j : IsDigit(s[k])
        /\ j = Len(s) \/ ~IsDigit(s[j + 1])

\* The first position after j that does not hold white space (\s*).
AfterSpaces(s, j) ==
    CHOOSE k \in (j + 1)..(Len(s) + 1) :
        /\ \A m \in (j + 1)..(k - 1) : IsSpace(s[m])
        /\ k = Len(s) + 1 \/ ~IsSpace(s[k])

\* r'(\d+)\s*(?:GB|gb)' matches at position i
VramPatternAt(s, i) ==
    /\ IsDigit(s[i])
    /\ LET k == AfterSpaces(s, DigitsEnd(s, i))
       IN  /\ k + 1 <= Len(s)
           /\ <<s[k], s[k + 1]>> \in {<<"G", "B">>, <<"g", "b">>}

\* parse_vram_string(vram_str): re.search takes the leftmost match.
parse_vram_string(s) ==
    IF s = <<>> THEN PyNone
    ELSE LET hits == {i \in 1..Len(s) : VramPatternAt(s, i)}
         IN  IF hits # {}
             THEN LET i == CHOOSE h \in hits : \A g \in hits : h <= g
                  IN  PyInt(int_of_digits(SubSeq(s, i, DigitsEnd(s, i))))
             ELSE int_of_text(s)

\* vram_fits with the comparison strict.
vram_fits_strict(model_vram, available_vram_gb) ==
    IF model_vram = PyNone THEN TRUE
    ELSE IF available_vram_gb.type \notin {"int", "float", "bool"} THEN TRUE
    ELSE LET required == parse_vram_string(str(model_vram))
         IN  IF required = PyNone THEN TRUE
             ELSE required.v < available_vram_gb.v

vram_fits(model_vram, available_vram_gb) ==
    IF model_vram = PyNone THEN TRUE
    ELSE IF available_vram_gb.type \notin {"int", "float", "bool"} THEN TRUE
    ELSE LET required == parse_vram_string(str(model_vram))
         IN  IF required = PyNone THEN TRUE
             ELSE required.v <= available_vram_gb.v

\* The ways callers state a requirement of n GB.
VramForms(n) ==
    {PyInt(n), PyStr(str_nat(n)), PyStr(str_nat(n) \o <<"G", "B">>),
     PyStr(str_nat(n) \o <<" ", "G", "B">>), PyStr(str_nat(n) \o <<"g", "b">>),
     PyStr(<<"~">> \o str_nat(n) \o <<"G", "B">>)}

\* Requirements that state no size the parser reads as written.
OtherRequirements ==
    {PyNone, PyStr(<<>>), PyStr(<<"n", "/", "a">>), PyFloat(MaxVramGb),
     PyStr(<<"7", ".", "5", "G", "B">>)}

VramRequirements == OtherRequirements \cup UNION {VramForms(n) : n \in 0..MaxVramGb}

\* get_available_vram returns max(0, ...); None stands for a missing value.
VramAvailable == {PyNone} \cup {PyInt(n) : n \in 0..MaxVramGb}

\* ------------------------------------------------------------------------
\* The pure functions of utils/, each applied to one input.
\* ------------------------------------------------------------------------
NameAlphabet == {"M", "m", "U+0130", " ", "/", ".", "-"}

Names == UNION {[1..n -> NameAlphabet] : n \in 0..MaxNameLen}

\* The calls to make: the function, its arguments, and no value yet.
VramFitsCalls ==
    {[op |-> "vram_fits", at |-> [model_vram |-> r, available_vram_gb |-> a],
      called |-> FALSE, value |-> FALSE] : r \in VramRequirements, a \in VramAvailable}

NormalizeCalls ==
    {[op |-> "normalize_model_id", at |-> [name |-> x], called |-> FALSE, value |-> <<>>] :
        x \in Names}

InitUtils ==
    /\ InitAtRest
    /\ InitElsewhere
    /\ \/ observed \in VramFitsCalls
       \/ observed \in NormalizeCalls

\* vram_fits(model_vram, available_vram_gb) returns.
VramFits ==
    /\ observed.op = "vram_fits"
    /\ ~observed.called
    /\ observed' = [observed EXCEPT
                       !.called = TRUE,
                       !.value = vram_fits(observed.at.model_vram,
                                           observed.at.available_vram_gb)]
    /\ UNCHANGED <<tables_and_locks, pc, frame, result, elsewhere>>

\* normalize_model_id(name) returns.
NormalizeModelId ==
    /\ observed.op = "normalize_model_id"
    /\ ~observed.called
    /\ observed' = [observed EXCEPT !.called = TRUE,
                                    !.value = normalize_model_id(observed.at.name)]
    /\ UNCHANGED <<tables_and_locks, pc, frame, result, elsewhere>>

NextUtils == VramFits \/ NormalizeModelId

SpecUtils == InitUtils /\ [][NextUtils]_vars

\* ------------------------------------------------------------------------
\* The fetchers' entry points over what the network call gives.
\* ------------------------------------------------------------------------
\* An entry of a leaderboard list: a JSON object with its name ("" when the
\* object has no name key), or something that is not an object.
Entry(name) == [object |-> TRUE, name |-> name]
NotAnObject == [object |-> FALSE, name |-> <<>>]

EntryLists ==
    UNION {[1..n -> {Entry(<<"M", ".", "1">>), Entry(<<>>), NotAnObject}] : n \in 0..2}

\* What urlopen and the decoding of the body give: a timeout (URLError), an
\* HTTP error status, a body that is not JSON, JSON of another shape than a
\* list of entries, or a list of entries.  For a page of Artificial
\* Analysis, body is what the __NEXT_DATA__ script holds and table the names
\* in the rows the table patterns find in the page.
Responses ==
    {[kind |-> k, entries |-> <<>>, table |-> <<>>] : k \in {"timeout", "http_error"}}
    \cup
    {[kind |-> k, entries |-> <<>>, table |-> t] :
        k \in {"not_json", "wrong_shape"}, t \in {<<>>, ProviderRanking}}
    \cup
    {[kind |-> "entries", entries |-> e, table |-> t] :
        e \in EntryLists, t \in {<<>>, ProviderRanking}}

\* urllib.request.urlopen(...) and json.loads(resp.read().decode())
urlopen_json(resp) ==
    CASE resp.kind = "timeout" -> Raised("URLError")
      [] resp.kind = "http_error" -> Raised("HTTPError")
      [] resp.kind = "not_json" -> Raised("JSONDecodeError")
      [] OTHER -> Returned(resp)

EntryNames(entries) == [i \in 1..Len(entries) |-> entries[i].name]

\* self._parse_leaderboard(data) as called: data[:20] of something that is
\* not a list raises TypeError, entry.get of something that is not an
\* object raises AttributeError.
call_parse_leaderboard(data) ==
    IF data.kind = "wrong_shape" THEN Raised("TypeError")
    ELSE IF \E i \in 1..Len(Take(data.entries, LeaderboardTop)) : ~data.entries[i].object
    THEN Raised("AttributeError")
    ELSE Returned(parse_leaderboard(EntryNames(data.entries)))

\* self._parse_hub_models(models) as called
call_parse_hub_models(data) ==
    IF data.kind = "wrong_shape" THEN Raised("AttributeError")
    ELSE IF \E i \in 1..Len(data.entries) : ~data.entries[i].object
    THEN Raised("AttributeError")
    ELSE Returned(parse_hub_models(EntryNames(data.entries)))

\* HuggingFaceFetcher.fetch_llm_leaderboard: try ... except HTTPError:
\* return [] except Exception: return []
fetch_llm_leaderboard(resp) ==
    LET got == urlopen_json(resp)
        parsed == IF got.raised THEN got ELSE call_parse_leaderboard(got.value)
    IN  IF parsed.raised THEN Returned(<<>>) ELSE parsed

\* HuggingFaceFetcher.fetch_trending_models: try ... except Exception: return []
fetch_trending_models(resp) ==
    LET got == urlopen_json(resp)
        parsed == IF got.raised THEN got ELSE call_parse_hub_models(got.value)
    IN  IF parsed.raised THEN Returned(<<>>) ELSE parsed

\* ArtificialAnalysisFetcher.ENDPOINTS
ENDPOINTS == {"llm", "image_gen", "video", "tts"}

\* The loop of _parse_next_data over leaderboard[:MAX_ARENA_SIZE] from the
\* entry of the given rank on: an entry without a name is skipped
\* (_entry_to_model returns None); at an entry that is not an object
\* entry.get raises, the except clause of _parse_next_data logs it and the
\* models collected so far are returned.
RECURSIVE next_data_models(_, _, _)
next_data_models(entries, aa_category, rank) ==
    IF entries = <<>> \/ rank > MAX_ARENA_SIZE THEN <<>>
    ELSE IF ~Head(entries).object THEN <<>>
    ELSE IF Head(entries).name = <<>>
    THEN next_data_models(Tail(entries), aa_category, rank + 1)
    ELSE <<build_model_dict(Head(entries).name, rank, map_category(aa_category),
                            is_open_source(Head(entries).name), "artificial_analysis")>>
            \o next_data_models(Tail(entries), aa_category, rank + 1)

\* ArtificialAnalysisFetcher._parse_html: the embedded data when it yields
\* models, the table rows otherwise.
parse_html(page, aa_category) ==
    LET models == IF page.kind = "entries"
                  THEN next_data_models(page.entries, aa_category, 1)
                  ELSE <<>>
    IN  IF models # <<>> THEN models ELSE aa_parse(page.table, aa_category)

\* ArtificialAnalysisFetcher.fetch_category
fetch_category(aa_category, resp) ==
    IF aa_category \notin ENDPOINTS THEN Returned(<<>>)
    ELSE IF resp.kind \in {"timeout", "http_error"} THEN Returned(<<>>)
    ELSE Returned(parse_html(resp, aa_category))

\* The calls to make: the entry point, its argument and the response the
\* network will give, and no value yet.
FetcherCalls ==
    {[op |-> f, at |-> [category |-> "", response |-> resp], called |-> FALSE,
      value |-> Returned(<<>>)] :
        f \in {"fetch_llm_leaderboard", "fetch_trending_models"},
        resp \in {r \in Responses : r.table = <<>>}}
    \cup
    {[op |-> "fetch_category", at |-> [category |-> c, response |-> resp],
      called |-> FALSE, value |-> Returned(<<>>)] :
        c \in {"llm", "video", "unknown"}, resp \in Responses}

InitFetchers ==
    /\ InitAtRest
    /\ InitElsewhere
    /\ observed \in FetcherCalls

FetchLlmLeaderboard ==
    /\ observed.op = "fetch_llm_leaderboard"
    /\ ~observed.called
    /\ observed' = [observed EXCEPT !.called = TRUE,
                                    !.value = fetch_llm_leaderboard(observed.at.response)]
    /\ UNCHANGED <<tables_and_locks, pc, frame, result, elsewhere>>

FetchTrendingModels ==
    /\ observed.op = "fetch_trending_models"
    /\ ~observed.called
    /\ observed' = [observed EXCEPT !.called = TRUE,
                                    !.value = fetch_trending_models(observed.at.response)]
    /\ UNCHANGED <<tables_and_locks, pc, frame, result, elsewhere>>

FetchCategory ==
    /\ observed.op = "fetch_category"
    /\ ~observed.called
    /\ observed' = [observed EXCEPT !.called = TRUE,
                                    !.value = fetch_category(observed.at.category,
                                                             observed.at.response)]
    /\ UNCHANGED <<tables_and_locks, pc, frame, result, elsewhere>>

NextFetchers == FetchLlmLeaderboard \/ FetchTrendingModels \/ FetchCategory

SpecFetchers == InitFetchers /\ [][NextFetchers]_vars

\* ------------------------------------------------------------------------
\* migrations/migrate.py: versioned schema upgrades of the database.
\* ------------------------------------------------------------------------
\* The lines an up_sql text is made of: a "-- ..." comment line, or a
\* statement with the ";" that ends it.
CommentLine == [kind |-> "comment", column |-> None, semicolon |-> FALSE]

AddColumn(column) == [kind |-> "add_column", column |-> column, semicolon |-> TRUE]

CreateVersionTable == [kind |-> "create_table", column |-> None, semicolon |-> TRUE]

\* Migration definitions: (version, name, up_sql).
MIGRATIONS ==
    << [version |-> 1, name |-> "initial_schema",
        up_sql |-> <<CommentLine, CommentLine, CreateVersionTable>>],
       [version |-> 2, name |-> "add_download_url",
        up_sql |-> <<CommentLine, AddColumn("download_url")>>],
       [version |-> 3, name |-> "add_pricing_columns",
        up_sql |-> <<CommentLine, AddColumn("price_per_1m_input"),
                     AddColumn("price_per_1m_output")>>],
       [version |-> 4, name |-> "add_benchmark_scores",
        up_sql |-> <<CommentLine, AddColumn("elo_score"),
                     AddColumn("humaneval_score"), AddColumn("swebench_score")>>] >>

\* sql.strip().split(";"): the pieces between the semicolons, the piece after
\* the last semicolon included; `piece` is the piece being collected.
RECURSIVE split_semicolon(_, _)
split_semicolon(lines, piece) ==
    IF lines = <<>> THEN <<piece>>
    ELSE IF Head(lines).semicolon
         THEN <<Append(piece, Head(lines))>> \o split_semicolon(Tail(lines), <<>>)
         ELSE split_semicolon(Tail(lines), Append(piece, Head(lines)))

\* statement = statement.strip(); if statement and not statement.startswith("--")
Executed(statement) == statement # <<>> /\ Head(statement).kind # "comment"

\* The columns a piece of SQL adds when SQLite runs it (comments are skipped
\* by SQLite itself).
ColumnsAdded(statement) ==
    {statement[i].column :
        i \in {j \in 1..Len(statement) : statement[j].kind = "add_column"}}

\* ALTER TABLE models ADD COLUMN of a column the table has raises
\* OperationalError "duplicate column name", which apply_migration ignores.
DuplicateColumn(columns, statement) == ColumnsAdded(statement) \cap columns # {}

\* The turn without its except clause: the duplicate-column error of a
\* statement applied before goes on to the caller.
execute_statement_no_except(columns, statement) ==
    IF ~Executed(statement) THEN [columns |-> columns, raised |-> FALSE]
    ELSE IF DuplicateColumn(columns, statement)
    THEN [columns |-> columns, raised |-> TRUE]
    ELSE [columns |-> columns \cup ColumnsAdded(statement), raised |-> FALSE]

\* One turn of apply_migration's loop when SQLite answers: the statement is
\* skipped or executed; the columns of models after it, and whether an
\* OperationalError leaves the loop ("duplicate column" is ignored).
execute_statement(columns, statement) ==
    IF ~Executed(statement) \/ DuplicateColumn(columns, statement)
    THEN [columns |-> columns, raised |-> FALSE]
    ELSE [columns |-> columns \cup ColumnsAdded(statement), raised |-> FALSE]

\* get_current_version: SELECT MAX(version) FROM schema_version, or 0.
get_current_version(versions) ==
    IF DOMAIN versions = {} THEN 0
    ELSE CHOOSE v \in DOMAIN versions : \A w \in DOMAIN versions : w <= v

\* The pending list taken from the current version on (>= for >).
get_pending_migrations_from_current(versions) ==
    SelectSeq(MIGRATIONS, LAMBDA m : m.version >= get_current_version(versions))

\* get_pending_migrations: [m for m in MIGRATIONS if m.version > current]
get_pending_migrations(versions) ==
    SelectSeq(MIGRATIONS, LAMBDA m : m.version > get_current_version(versions))

\* The frame of a migrate() run: the migrations still to apply, the first
\* being applied, and the statements of its loop not yet visited.
MigrateFrame(pending) ==
    [op |-> "migrate", pending |-> pending,
     statements |-> IF pending = <<>> THEN <<>>
                    ELSE split_semicolon(Head(pending).up_sql, <<>>)]

\* A migrate() run is under way in process t.
Migrating(t) == pc[t] = "apply_migration"

InitMigrations == InitAtRest /\ InitElsewhere /\ observed = NoObservation

\* migrate() up to its loop: the connection is opened, ensure_version_table
\* runs, the pending list is read; with nothing pending it returns True.
\* Runs are commands of the CLI, one after the other.
Migrate(t) ==
    /\ pc[t] = "idle"
    /\ \A u \in Threads : ~Migrating(u)
    /\ LET pending == get_pending_migrations(schema_version)
       IN  /\ frame' = [frame EXCEPT ![t] = MigrateFrame(pending)]
           /\ IF pending = <<>>
              THEN /\ DbLeave(t, "returned", "up_to_date")
                   /\ UNCHANGED connections
              ELSE /\ pc' = [pc EXCEPT ![t] = "apply_migration"]
                   /\ connections' =
                         connections \cup {[by |-> t, ctx |-> "utils.db.get_db_context"]}
                   /\ UNCHANGED result
    /\ UNCHANGED <<tables_and_locks, observed, hardware_profiles, DEFAULT_PROFILE,
                   models_columns, schema_version>>

\* One turn of apply_migration's loop over sql.strip().split(";").
ExecuteStatement(t) ==
    /\ Migrating(t)
    /\ frame[t].statements # <<>>
    /\ LET r == execute_statement(models_columns, Head(frame[t].statements))
       IN  /\ models_columns' = r.columns
           /\ IF r.raised
              THEN /\ connections' = db_close(connections, t)
                   /\ DbLeave(t, "raised", "duplicate column")
                   /\ UNCHANGED frame
              ELSE /\ frame' = [frame EXCEPT ![t].statements = Tail(@)]
                   /\ UNCHANGED <<pc, result, connections>>
    /\ UNCHANGED <<tables_and_locks, observed, hardware_profiles, DEFAULT_PROFILE,
                   schema_version>>

\* Every OperationalError ignored: the loop goes on to the next statement.
ExecuteStatementFailsIgnored(t) ==
    /\ Migrating(t)
    /\ frame[t].statements # <<>>
    /\ Executed(Head(frame[t].statements))
    /\ frame' = [frame EXCEPT ![t].statements = Tail(@)]
    /\ UNCHANGED <<tables_and_locks, pc, result, connections, observed, hardware_profiles,
                   DEFAULT_PROFILE, models_columns, schema_version>>

\* db.execute(statement) raises an OperationalError other than "duplicate
\* column" (the database is locked, the disk is full): it leaves
\* apply_migration and migrate, and the with block closes the connection.
ExecuteStatementFails(t) ==
    /\ Migrating(t)
    /\ frame[t].statements # <<>>
    /\ Executed(Head(frame[t].statements))
    /\ connections' = db_close(connections, t)
    /\ DbLeave(t, "raised", "execute")
    /\ UNCHANGED <<tables_and_locks, frame, observed, hardware_profiles,
                   DEFAULT_PROFILE, models_columns, schema_version>>

\* The end of apply_migration: INSERT OR REPLACE INTO schema_version and
\* commit; then migrate's loop goes to the next pending migration, or returns.
RecordMigration(t) ==
    /\ Migrating(t)
    /\ frame[t].statements = <<>>
    /\ schema_version' =
          (Head(frame[t].pending).version :>
              [name |-> Head(frame[t].pending).name, applied_at |-> now]) @@ schema_version
    /\ frame' = [frame EXCEPT ![t] = MigrateFrame(Tail(frame[t].pending))]
    /\ IF Tail(frame[t].pending) = <<>>
       THEN /\ connections' = db_close(connections, t)
            /\ DbLeave(t, "returned", "migrate")
       ELSE UNCHANGED <<pc, result, connections>>
    /\ UNCHANGED <<tables_and_locks, observed, hardware_profiles, DEFAULT_PROFILE,
                   models_columns>>

\* The INSERT or the commit raises: the row is not stored, the exception
\* leaves migrate and the with block closes the connection.
RecordMigrationFails(t) ==
    /\ Migrating(t)
    /\ frame[t].statements = <<>>
    /\ connections' = db_close(connections, t)
    /\ DbLeave(t, "raised", "record")
    /\ UNCHANGED <<tables_and_locks, frame, observed, hardware_profiles,
                   DEFAULT_PROFILE, models_columns, schema_version>>

NextMigrations ==
    \/ \E t \in Threads : Migrate(t)
    \/ \E t \in Threads : ExecuteStatement(t)
    \/ \E t \in Threads : ExecuteStatementFails(t)
    \/ \E t \in Threads : RecordMigration(t)
    \/ \E t \in Threads : RecordMigrationFails(t)

SpecMigrations == InitMigrations /\ [][NextMigrations]_vars

\* apply_migration(db, version, name, up_sql) called on its own, as the
\* tests call it, for any migration of MIGRATIONS, over an open connection.
ApplyMigration(t, i) ==
    /\ pc[t] = "idle"
    /\ \A u \in Threads : ~Migrating(u)
    /\ frame' = [frame EXCEPT ![t] =
                    [MigrateFrame(<<MIGRATIONS[i]>>) EXCEPT !.op = "apply_migration"]]
    /\ pc' = [pc EXCEPT ![t] = "apply_migration"]
    /\ connections' = connections \cup {[by |-> t, ctx |-> "sqlite3.connect"]}
    /\ UNCHANGED <<tables_and_locks, result, observed, hardware_profiles, DEFAULT_PROFILE,
                   models_columns, schema_version>>

\* Calls of apply_migration one after the other, at any time of the clock.
NextApply ==
    \/ \E t \in Threads, i \in 1..Len(MIGRATIONS) : ApplyMigration(t, i)
    \/ \E t \in Threads : ExecuteStatement(t)
    \/ \E t \in Threads : ExecuteStatementFails(t)
    \/ \E t \in Threads : RecordMigration(t)
    \/ \E t \in Threads : RecordMigrationFails(t)
    \/ Tick

SpecApply == InitMigrations /\ [][NextApply]_vars

\* ------------------------------------------------------------------------
\* fetchers/cache_manager.py: get_cache_manager, the module-level singleton.
\* ------------------------------------------------------------------------
\* The db_path arguments the callers pass.
DbPaths == {"data/sota.db", "other.db"}

\* Everything but the singleton and the callers' positions.
outside_singleton ==
    <<scope, now, refresh_lock, category_locks, lock_owner, cache_status, models_table,
      invoked, fetched_calls, disturbed, observed, connections, hardware_profiles,
      DEFAULT_PROFILE, models_columns, schema_version>>

\* A thread that is in no call of get_cache_manager and has returned from none.
NoManagerCall == [op |-> "none", db_path |-> None, locked |-> FALSE]

NoManagerResult == [kind |-> "none", value |-> 0, locked |-> FALSE]

InitSingleton ==
    /\ InitElsewhere
    /\ scope = NoWorkload
    /\ now = 0
    /\ refresh_lock = 0
    /\ category_locks = <<>>
    /\ lock_owner = <<>>
    /\ cache_status = <<>>
    /\ models_table = SeedRows
    /\ invoked = [t \in Threads |-> <<>>]
    /\ fetched_calls = <<>>
    /\ disturbed = <<>>
    /\ observed = NoObservation
    /\ pc = [t \in Threads |-> "idle"]
    /\ frame = [t \in Threads |-> NoManagerCall]
    /\ result = [t \in Threads |-> NoManagerResult]

\* get_cache_manager(db_path) is called; the first "if _cache_manager is None".
GetCacheManager(t, db_path) ==
    /\ pc[t] \in {"idle", "done"}
    /\ frame' = [frame EXCEPT ![t] =
                    [op |-> "get_cache_manager", db_path |-> db_path, locked |-> FALSE]]
    /\ pc' = [pc EXCEPT ![t] = IF cache_manager = 0 THEN "wait_manager_lock" ELSE "return"]
    /\ UNCHANGED <<outside_singleton, singleton, result>>

\* "with _cache_manager_lock:" entered.
AcquireManagerLock(t) ==
    /\ pc[t] = "wait_manager_lock"
    /\ cache_manager_lock = 0
    /\ cache_manager_lock' = t
    /\ frame' = [frame EXCEPT ![t].locked = TRUE]
    /\ pc' = [pc EXCEPT ![t] = "second_check"]
    /\ UNCHANGED <<outside_singleton, cache_manager, constructed, result>>

\* The lock without the second test: whoever enters constructs.
ConstructUnderLockUnchecked(t) ==
    /\ pc[t] = "second_check"
    /\ constructed' = Append(constructed, frame[t].db_path)
    /\ cache_manager' = Len(constructed')
    /\ cache_manager_lock' = 0
    /\ pc' = [pc EXCEPT ![t] = "return"]
    /\ UNCHANGED <<outside_singleton, frame, result>>

\* Inside the lock: "if _cache_manager is None: _cache_manager =
\* CacheManager(db_path)"; the with block is left.
ConstructUnderLock(t) ==
    /\ pc[t] = "second_check"
    /\ IF cache_manager = 0
       THEN /\ constructed' = Append(constructed, frame[t].db_path)
            /\ cache_manager' = Len(constructed')
       ELSE UNCHANGED <<cache_manager, constructed>>
    /\ cache_manager_lock' = 0
    /\ pc' = [pc EXCEPT ![t] = "return"]
    /\ UNCHANGED <<outside_singleton, frame, result>>

\* return _cache_manager
ReturnManager(t) ==
    /\ pc[t] = "return"
    /\ result' = [result EXCEPT ![t] =
                     [kind |-> "returned", value |-> cache_manager,
                      locked |-> frame[t].locked]]
    /\ pc' = [pc EXCEPT ![t] = "done"]
    /\ UNCHANGED <<outside_singleton, singleton, frame>>

NextSingleton ==
    \/ \E t \in Threads, db_path \in DbPaths : GetCacheManager(t, db_path)
    \/ \E t \in Threads : AcquireManagerLock(t)
    \/ \E t \in Threads : ConstructUnderLock(t)
    \/ \E t \in Threads : ReturnManager(t)

SpecSingleton == InitSingleton /\ [][NextSingleton]_vars

\* ------------------------------------------------------------------------
\* Vocabulary of the properties
\* ------------------------------------------------------------------------
\* The positions inside "with lock:" of refresh_if_stale.
LockedSection ==
    {"check_fresh", "fetch", "update_models", "stamp_success", "stamp_failure",
     "stamp_manual"}

\* Every source the call has tried so far returned [] or raised.
AllFailed(t) ==
    /\ invoked[t] # <<>>
    /\ \A i \in 1..Len(invoked[t]) : invoked[t][i].outcome # "data"

\* The metrics tag the fetcher of a source puts on its records.
MetricsSource(source) ==
    CASE source = "huggingface" -> "huggingface_leaderboard"
      [] OTHER -> source

\* ------------------------------------------------------------------------
\* Properties
\* ------------------------------------------------------------------------
\* C1: threads calling refresh_if_stale(C) concurrently on one date with no
\* force_refresh: at most one of them is running C's fetch sequence, and once
\* a call has invoked fetchers for C every other thread that gets C's lock
\* sees C fresh and returns {refreshed: False, source: 'cache',
\* models_updated: 0, error: None} without invoking a fetcher.
C1_WaitersReturnCache ==
    /\ [][\A t \in Threads :
            (/\ pc[t] = "check_fresh"
             /\ pc'[t] # "check_fresh"
             /\ frame[t].op = "refresh_if_stale"
             /\ ~disturbed[frame[t].category]
             /\ fetched_calls[frame[t].category] >= 1)
            => /\ pc'[t] = "done"
               /\ result'[t] = Dict(t, FALSE, "cache", 0, None)
               /\ invoked[t] = <<>>
               /\ fetched_calls' = fetched_calls]_vars
    /\ [](\A t, u \in Threads :
            (t # u /\ invoked[t] # <<>> /\ invoked[u] # <<>>)
                => frame[t].category # frame[u].category)

\* C1 witness: one thread refreshed C from a source while a second thread,
\* which found C's lock held, waited and then returned the cache result.
C1_Witness ==
    \E t, u \in Threads :
        /\ t # u
        /\ now = 0
        /\ pc[t] = "done" /\ pc[u] = "done"
        /\ result[t].kind = "dict" /\ result[t].refreshed
        /\ result[t].source \notin {"cache", "manual"}
        /\ result[u].category = result[t].category
        /\ result[u].blocked
        /\ result[u].kind = "dict" /\ result[u].source = "cache"
        /\ ~result[u].refreshed /\ result[u].models_updated = 0
        /\ ~disturbed[result[t].category]
        /\ fetched_calls[result[t].category] = 1

\* C2: at most one thread is inside the locked section of refresh_if_stale
\* for a category: a thread in the section owns the one lock object of its
\* category, so two threads in the section are there for different categories
\* and their batches of upserts cannot interleave.
C2_OneRefreshPerCategory ==
    \A t \in Threads :
        pc[t] \in LockedSection =>
            /\ frame[t].category \in DOMAIN category_locks
            /\ frame[t].lock = category_locks[frame[t].category]
            /\ lock_owner[frame[t].lock] = t
            /\ \A u \in Threads \ {t} :
                  pc[u] \in LockedSection => frame[u].category # frame[t].category

\* C2 witness: one thread is about to write its batch for C while another
\* thread waits for C's lock.
C2_Witness ==
    \E t, u \in Threads :
        /\ t # u
        /\ pc[t] = "update_models"
        /\ pc[u] = "wait_lock"
        /\ frame[u].category = frame[t].category
        /\ frame[u].lock = frame[t].lock

\* C3: on one calendar date with no force_refresh, fetchers are invoked for C
\* during at most one call, and once that call has left the lock C is fresh,
\* so every later call that date takes the cache branch.
C3_OneFetchPerDay ==
    \A c \in scope.categories :
        ~disturbed[c] =>
            /\ fetched_calls[c] <= 1
            /\ (/\ fetched_calls[c] = 1
                /\ \A t \in Threads :
                      ~(pc[t] \in LockedSection \ {"check_fresh"}
                            /\ frame[t].category = c))
               => is_cache_fresh(c)

\* C3 witness: two calls for C on one date, one after the other: the first
\* invoked fetchers and failed, the second returned the cache result.
C3_Witness ==
    \E t, u \in Threads :
        /\ t # u
        /\ now = 0
        /\ pc[t] = "done" /\ pc[u] = "done"
        /\ result[t].kind = "dict" /\ ~result[t].refreshed
        /\ result[t].error # None
        /\ result[u].category = result[t].category
        /\ ~result[u].blocked
        /\ result[u].kind = "dict" /\ result[u].source = "cache"
        /\ ~disturbed[result[t].category]
        /\ fetched_calls[result[t].category] = 1

\* C4: every force_refresh(C) of a category with configured sources that
\* returns a result has invoked C's fetchers and does not return source
\* 'cache'.
C4_ForceAlwaysFetches ==
    [][\A t \in Threads :
          (/\ frame[t].op = "force_refresh"
           /\ SourcesOf(frame[t].category) # <<>>
           /\ pc'[t] = "done"
           /\ result'[t].kind = "dict")
          => /\ result'[t].source # "cache"
             /\ invoked[t] # <<>>]_vars

\* C5: the batch of upserts of a refresh of C creates or overwrites only rows
\* of category C: every row it adds or changes has category C, and the row
\* it replaced, if any, had category C.
C5_RefreshWritesOwnCategoryOnly ==
    [][\A t \in Threads :
          (pc[t] = "update_models" /\ pc'[t] # "update_models")
          => \A id \in DOMAIN models_table' :
                (id \notin DOMAIN models_table \/ models_table'[id] # models_table[id])
                => /\ models_table'[id].category = frame[t].category
                   /\ id \in DOMAIN models_table
                         => models_table[id].category = frame[t].category]_vars

\* C6: a call whose sources all failed changes no model row (only the batch
\* of upserts writes rows, and it is reached only with fetched data) and
\* returns refreshed False with models_updated 0.
C6_FailedRefreshKeepsRows ==
    /\ [][\A t \in Threads :
            (/\ pc[t] # "update_models"
             /\ (pc'[t] # pc[t] \/ invoked'[t] # invoked[t]))
            => models_table' = models_table]_vars
    /\ [][\A t \in Threads :
            (AllFailed(t) /\ pc'[t] = "done" /\ result'[t].kind = "dict")
            => /\ ~result'[t].refreshed
               /\ result'[t].models_updated = 0]_vars
    /\ [](\A t \in Threads :
            pc[t] \in {"update_models", "stamp_success"} => ~AllFailed(t))

\* C6 witness: a call for a category that has rows returned the failure
\* result and the rows are the ones the store started with.
C6_Witness ==
    \E t \in Threads :
        /\ pc[t] = "done"
        /\ result[t].kind = "dict"
        /\ ~result[t].refreshed
        /\ result[t].source = None
        /\ result[t].models_updated = 0
        /\ \E id \in DOMAIN models_table :
              models_table[id].category = result[t].category
        /\ models_table = SeedRows

\* C7: a cache_status row with fetch_success false has a non-null
\* error_message.
C7_FailureRowHasError ==
    \A c \in DOMAIN cache_status :
        ~cache_status[c].fetch_success => cache_status[c].error_message # None

\* C8 as stated: when every source of a non-empty source list failed, the
\* returned source and the stamped fetch_source are the last source tried.
C8_FailureNamesLastSource ==
    [][\A t \in Threads :
          (pc[t] = "stamp_failure" /\ pc'[t] = "done" /\ result'[t].kind = "dict")
          => /\ result'[t].source = invoked[t][Len(invoked[t])].source
             /\ cache_status'[frame[t].category].fetch_source
                    = invoked[t][Len(invoked[t])].source]_vars

\* C8 amended: when every source of a non-empty source list failed, the
\* returned source is None and the stamped row has fetch_source null and
\* fetch_success false.
C8_FailureNamesNoSource ==
    [][\A t \in Threads :
          (pc[t] = "stamp_failure" /\ pc'[t] = "done" /\ result'[t].kind = "dict")
          => /\ AllFailed(t)
             /\ result'[t].source = None
             /\ cache_status'[frame[t].category].fetch_source = None
             /\ ~cache_status'[frame[t].category].fetch_success]_vars

\* C8 witness: a call for a category with two sources returned the failure
\* result and its status row names no source.
C8_Witness ==
    \E t \in Threads :
        /\ pc[t] = "done"
        /\ result[t].kind = "dict"
        /\ result[t].error # None
        /\ result[t].source = None
        /\ Len(SourcesOf(result[t].category)) = 2
        /\ result[t].category \in DOMAIN cache_status
        /\ cache_status[result[t].category].fetch_source = None
        /\ ~cache_status[result[t].category].fetch_success

\* C9: the sources tried so far are the first ones of the configured list,
\* in order; a source is tried only after all earlier ones failed; after a
\* source gave data none is tried, and the batch comes from that source only.
C9_SourcesInOrderFirstWins ==
    \A t \in Threads :
        LET inv == invoked[t]
            srcs == SourcesOf(frame[t].category)
        IN  /\ Len(inv) <= Len(srcs)
            /\ \A i \in 1..Len(inv) :
                  /\ inv[i].source = srcs[i]
                  /\ i < Len(inv) => inv[i].outcome # "data"
            /\ pc[t] = "fetch" =>
                  /\ frame[t].idx = Len(inv) + 1
                  /\ ~(\E i \in 1..Len(inv) : inv[i].outcome = "data")
                  /\ frame[t].models = <<>>
            /\ pc[t] \in {"update_models", "stamp_success"} =>
                  /\ inv # <<>>
                  /\ inv[Len(inv)].outcome = "data"
                  /\ frame[t].source_used = inv[Len(inv)].source
                  /\ frame[t].models # <<>>
                  /\ frame[t].models
                        \in {r.value : r \in fetch_from_source(frame[t].source_used,
                                                               frame[t].category)}
                  /\ \A i \in 1..Len(frame[t].models) :
                        frame[t].models[i].metrics = MetricsSource(frame[t].source_used)

\* C9 witness: the first source returned [], the second gave data and is
\* the one the call is about to stamp.
C9_Witness ==
    \E t \in Threads :
        /\ pc[t] = "stamp_success"
        /\ Len(invoked[t]) = 2
        /\ invoked[t][1].outcome = "empty"
        /\ invoked[t][2].outcome = "data"
        /\ frame[t].source_used = SourcesOf(frame[t].category)[2]

\* C10: a fetcher's exception does not leave refresh_if_stale: only a store
\* error is raised to the caller; after a source raised, its message is kept
\* and the next source is tried; when the sources are exhausted the call
\* returns a dict with refreshed False and a non-null error.
C10_FetcherErrorsContained ==
    /\ [](\A t \in Threads :
            /\ (pc[t] = "done" /\ result[t].kind = "raised")
                  => result[t].error = "StoreError"
            /\ \A i \in 1..Len(invoked[t]) :
                  invoked[t][i].outcome = "raised" =>
                      /\ frame[t].error = "lmarena failed"
                      /\ i < Len(SourcesOf(frame[t].category)) =>
                            \/ Len(invoked[t]) > i
                            \/ (pc[t] = "fetch" /\ frame[t].idx = i + 1))
    /\ [][\A t \in Threads :
            (AllFailed(t) /\ pc'[t] = "done" /\ result'[t].kind = "dict")
            => /\ ~result'[t].refreshed
               /\ result'[t].error # None
               /\ (\E i \in 1..Len(invoked[t]) : invoked[t][i].outcome = "raised")
                     => result'[t].error = "lmarena failed"]_vars

\* C10 witness: a call whose first source raised returned the failure dict
\* carrying the captured message.
C10_Witness ==
    \E t \in Threads :
        /\ pc[t] = "done"
        /\ result[t].kind = "dict"
        /\ ~result[t].refreshed
        /\ result[t].error = "lmarena failed"
        /\ Len(SourcesOf(result[t].category)) = 2

\* C11: when a source returned a non-empty list, refresh_if_stale returns
\* {refreshed: True, source: that source, models_updated: the number of
\* records, error: None} and the status row it stamps names that source with
\* fetch_success true and error_message null, whatever earlier sources did.
C11_SuccessResult ==
    [][\A t \in Threads :
          (pc[t] = "stamp_success" /\ pc'[t] = "done" /\ result'[t].kind = "dict")
          => LET c == frame[t].category
                 won == invoked[t][Len(invoked[t])]
             IN  /\ won.outcome = "data"
                 /\ result'[t].refreshed
                 /\ result'[t].source = won.source
                 /\ result'[t].models_updated = Len(frame[t].models)
                 /\ result'[t].error = None
                 /\ c \in DOMAIN cache_status'
                 /\ cache_status'[c].fetch_source = won.source
                 /\ cache_status'[c].fetch_success
                 /\ cache_status'[c].error_message = None]_vars

\* C11 witness: a call returned the success result of its second source
\* (the first one failed) and the status row names that source.
C11_Witness ==
    \E t \in Threads :
        /\ pc[t] = "done"
        /\ result[t].kind = "dict"
        /\ result[t].refreshed
        /\ Len(SourcesOf(result[t].category)) = 2
        /\ result[t].source = SourcesOf(result[t].category)[2]
        /\ result[t].models_updated = Len(ProviderRanking)
        /\ result[t].error = None
        /\ result[t].category \in DOMAIN cache_status
        /\ cache_status[result[t].category].fetch_source = result[t].source
        /\ cache_status[result[t].category].fetch_success
        /\ cache_status[result[t].category].error_message = None

\* The categories configured with an empty source list.
ManualCategories == {"music", "threed"}

\* C12 as stated: every refresh_if_stale call for music or 3d that returns
\* has invoked no fetcher and returns source 'manual'.
C12_ManualAlwaysManual ==
    [][\A t \in Threads :
          (/\ frame[t].op = "refresh_if_stale"
           /\ frame[t].category \in ManualCategories
           /\ pc'[t] = "done"
           /\ result'[t].kind = "dict")
          => /\ invoked[t] = <<>>
             /\ result'[t].source = "manual"]_vars

\* C12 amended: a call for music or 3d never invokes a fetcher; it returns
\* source 'manual' with refreshed True when the category is stale, and the
\* cache result (source 'cache') when the category was already stamped on
\* the current date.
C12_ManualOrCache ==
    /\ [](\A t \in Threads :
            frame[t].category \in ManualCategories
                => /\ invoked[t] = <<>>
                   /\ pc[t] \notin {"fetch", "update_models", "stamp_success",
                                    "stamp_failure"})
    /\ [][\A t \in Threads :
            (/\ frame[t].category \in ManualCategories
             /\ pc'[t] = "done"
             /\ result'[t].kind = "dict")
            => \/ /\ pc[t] = "check_fresh"
                  /\ is_cache_fresh(frame[t].category)
                  /\ result'[t] = Dict(t, FALSE, "cache", 0, None)
               \/ /\ pc[t] = "stamp_manual"
                  /\ result'[t] = Dict(t, TRUE, "manual", 0, None)]_vars
    /\ [][\A t \in Threads :
            (/\ frame[t].category \in ManualCategories
             /\ pc[t] = "check_fresh"
             /\ pc'[t] # "check_fresh"
             /\ ~is_cache_fresh(frame[t].category))
            => pc'[t] = "stamp_manual"]_vars

\* C12 witness: two calls for one manual category on one date: one returned
\* source 'manual', the other source 'cache'.
C12_Witness ==
    \E t, u \in Threads :
        /\ t # u
        /\ pc[t] = "done" /\ pc[u] = "done"
        /\ result[t].category \in ManualCategories
        /\ result[u].category = result[t].category
        /\ result[t].kind = "dict" /\ result[t].source = "manual" /\ result[t].refreshed
        /\ result[u].kind = "dict" /\ result[u].source = "cache" /\ ~result[u].refreshed
        /\ ~disturbed[result[t].category]
        /\ now = 0

\* The category codes without a source: the manual categories and a code
\* that CATEGORY_SOURCES does not know.
UnsourcedCategories == ManualCategories \cup {"no_such_category"}

\* C13: refresh_if_stale on a stale category that has no source or is not a
\* recognized code goes straight to the 'manual' stamp: it invokes no
\* fetcher, changes no model row, stamps the category's status row with
\* source 'manual' and success true, and returns {refreshed: True,
\* source: 'manual', models_updated: 0, error: None}; the only exception it
\* can raise is the store's, when the stamp itself cannot be written.
C13_NoSourcesIsManual ==
    /\ [][\A t \in Threads :
            (/\ frame[t].category \in UnsourcedCategories
             /\ pc[t] = "check_fresh"
             /\ pc'[t] # "check_fresh"
             /\ ~is_cache_fresh(frame[t].category))
            => /\ pc'[t] = "stamp_manual"
               /\ invoked'[t] = <<>>
               /\ models_table' = models_table
               /\ cache_status' = cache_status]_vars
    /\ [][\A t \in Threads :
            (/\ frame[t].category \in UnsourcedCategories
             /\ pc[t] = "stamp_manual"
             /\ pc'[t] # "stamp_manual")
            => /\ pc'[t] = "done"
               /\ invoked[t] = <<>>
               /\ models_table' = models_table
               /\ \/ /\ result'[t].kind = "raised"
                     /\ result'[t].error = "StoreError"
                     /\ cache_status' = cache_status
                  \/ /\ result'[t] = Dict(t, TRUE, "manual", 0, None)
                     /\ frame[t].category \in DOMAIN cache_status'
                     /\ cache_status'[frame[t].category].fetch_source = "manual"
                     /\ cache_status'[frame[t].category].fetch_success
                     /\ cache_status'[frame[t].category].error_message = None
                     /\ \A c \in {frame[t].category} : is_cache_fresh(c)']_vars

\* C13 witness: a call with a code that is not configured returned the
\* manual result; its status row is stamped 'manual' and the model rows are
\* the ones the store started with.
C13_Witness ==
    \E t \in Threads :
        /\ pc[t] = "done"
        /\ result[t].category = "no_such_category"
        /\ result[t].kind = "dict"
        /\ result[t].refreshed
        /\ result[t].source = "manual"
        /\ result[t].models_updated = 0
        /\ result[t].error = None
        /\ "no_such_category" \in DOMAIN cache_status
        /\ cache_status["no_such_category"].fetch_source = "manual"
        /\ cache_status["no_such_category"].fetch_success
        /\ models_table = SeedRows

\* C14 (single-threaded execution): from force_refresh's DELETE until the
\* delegated refresh stamps, is_cache_fresh(C) is false; when force_refresh
\* returns a result, is_cache_fresh(C) is true; force_refresh's DELETE
\* step changes no model row and no step of the call removes one.
C14_ForceThenFresh ==
    /\ [](\A t \in Threads :
            frame[t].op = "force_refresh" => ~is_cache_fresh(frame[t].category))
    /\ [][\A t \in Threads :
            (/\ frame[t].op = "force_refresh"
             /\ pc'[t] = "done"
             /\ result'[t].kind = "dict")
            => \A c \in {frame[t].category} : is_cache_fresh(c)']_vars
    /\ [][\A t \in Threads :
            /\ (pc[t] = "idle" /\ frame'[t].op = "force_refresh")
                  => models_table' = models_table
            /\ (frame[t].op = "force_refresh" /\ frame'[t] # frame[t])
                  => DOMAIN models_table \subseteq DOMAIN models_table']_vars

\* C14 witness: the only call made so far is a force_refresh of a category
\* with sources; it has returned refreshed True, the category is fresh and
\* the rows the store started with are all still there.
C14_Witness ==
    \E t \in Threads :
        /\ \A u \in Threads \ {t} : pc[u] = "idle"
        /\ pc[t] = "done"
        /\ now = 0
        /\ result[t].kind = "dict"
        /\ result[t].refreshed
        /\ SourcesOf(result[t].category) # <<>>
        /\ disturbed[result[t].category]
        /\ is_cache_fresh(result[t].category)
        /\ DOMAIN SeedRows \subseteq DOMAIN models_table

\* C15: whenever refresh_if_stale(C) returns a result for a category with
\* sources, every model row of category C was written on the current
\* calendar date.
C15_RowsAtMostOneDayStale ==
    [][\A t \in Threads :
          (/\ frame[t].op = "refresh_if_stale"
           /\ SourcesOf(frame[t].category) # <<>>
           /\ pc'[t] = "done"
           /\ result'[t].kind = "dict")
          => \A id \in DOMAIN models_table' :
                models_table'[id].category = frame[t].category
                    => DateOf(models_table'[id].last_updated) = DateOf(now')]_vars

\* C16: is_cache_fresh compares calendar dates only: for a category stamped
\* at an instant of day d, a call at any later instant of day d answers True
\* and a call at any instant of a later day answers False, however little
\* or much time has passed.
C16_FreshnessIsDateEquality ==
    \A c \in DOMAIN cache_status :
        LET stamp == cache_status[c].last_fetched
        IN  (/\ observed.op = "is_cache_fresh"
             /\ observed.category = c
             /\ stamp.kind = "iso"
             /\ stamp.ts <= observed.at)
            => /\ (stamp.ts \div TicksPerDay = observed.at \div TicksPerDay)
                      => observed.value = TRUE
               /\ (stamp.ts \div TicksPerDay < observed.at \div TicksPerDay)
                      => observed.value = FALSE

\* C16 witness: a category stamped at the last instant of a day was
\* reported stale one instant later, on the next day.
C16_Witness ==
    \E c \in DOMAIN cache_status :
        /\ observed.op = "is_cache_fresh"
        /\ observed.category = c
        /\ cache_status[c].last_fetched.kind = "iso"
        /\ observed.at = cache_status[c].last_fetched.ts + 1
        /\ observed.at \div TicksPerDay = (cache_status[c].last_fetched.ts \div TicksPerDay) + 1
        /\ observed.value = FALSE

\* Position of a category code in the order of ORDER BY category.
RankOf(c) == CHOOSE i \in 1..Len(CategoryOrder) : CategoryOrder[i] = c

\* C17: is_cache_fresh(C) answers False when C has no status row, when
\* last_fetched is NULL and when last_fetched is not a timestamp; otherwise
\* it answers True exactly when the stored date is today's date; it always
\* answers (raises nothing). get_cache_status returns every status row once,
\* sorted by category code. Neither call changes a row of the store.
C17_ReadsArePure ==
    /\ [](observed.op = "is_cache_fresh" =>
            LET c == observed.category
            IN  /\ observed.value \in BOOLEAN
                /\ c \notin DOMAIN cache_status => observed.value = FALSE
                /\ c \in DOMAIN cache_status =>
                      LET stamp == cache_status[c].last_fetched
                      IN  /\ stamp.kind = "null" => observed.value = FALSE
                          /\ stamp.kind = "text" => observed.value = FALSE
                          /\ stamp.kind = "iso" =>
                                observed.value
                                    = (stamp.ts \div TicksPerDay
                                          = observed.at \div TicksPerDay))
    /\ [](observed.op = "get_cache_status" =>
            LET rows == observed.value
            IN  /\ Len(rows) = Cardinality(DOMAIN cache_status)
                /\ {rows[i].category : i \in 1..Len(rows)} = DOMAIN cache_status
                /\ \A i, j \in 1..Len(rows) :
                      i < j => RankOf(rows[i].category) < RankOf(rows[j].category)
                /\ \A i \in 1..Len(rows) :
                      /\ rows[i].last_fetched = cache_status[rows[i].category].last_fetched
                      /\ rows[i].fetch_source = cache_status[rows[i].category].fetch_source)
    /\ [][observed' # observed =>
            /\ cache_status' = cache_status
            /\ models_table' = models_table]_vars

\* C17 witness: is_cache_fresh answered False for a category whose row holds
\* text that is not a timestamp.
C17_Witness ==
    /\ observed.op = "is_cache_fresh"
    /\ observed.category \in DOMAIN cache_status
    /\ cache_status[observed.category].last_fetched = OtherText
    /\ observed.value = FALSE
    /\ Cardinality(DOMAIN cache_status) = 2

\* The last record of a batch that carries the identifier id.
LastRecordWith(models, id) ==
    models[CHOOSE i \in 1..Len(models) :
              /\ models[i].id = id
              /\ \A j \in (i + 1)..Len(models) : models[j].id # id]

\* C18: the upsert of a fetched record whose identifier already has a row
\* replaces the whole row: afterwards the row holds the record's values,
\* the columns the record does not supply (release_date, source_url,
\* sota_rank_open) hold the column default NULL, nothing of the previous row
\* is left, and the identifier still has exactly one row.
C18_UpsertReplacesRow ==
    [][\A t \in Threads :
          (pc[t] = "update_models" /\ pc'[t] = "stamp_success")
          => LET ids == {frame[t].models[i].id : i \in 1..Len(frame[t].models)}
             IN  /\ DOMAIN models_table' = DOMAIN models_table \cup ids
                 /\ \A id \in ids :
                       LET rec == LastRecordWith(frame[t].models, id)
                           row == models_table'[id]
                       IN  /\ row.name = rec.name
                           /\ row.metrics = rec.metrics
                           /\ row.is_open_source = rec.is_open_source
                           /\ row.sota_rank = rec.sota_rank
                           /\ row.source = "auto"
                           /\ row.is_sota
                           /\ row.last_updated = now
                           /\ row.release_date = None
                           /\ row.source_url = None
                           /\ row.sota_rank_open = NullRank
                 /\ \A id \in DOMAIN models_table \ ids :
                       models_table'[id] = models_table[id]]_vars

\* C18 witness: a batch has just replaced the seeded row 'm-1' (release date
\* set, open-source rank 1, seed metrics): the row now carries the fetched
\* record and NULLs, and the store has as many rows as before.
C18_Witness ==
    \E t \in Threads :
        /\ pc[t] = "stamp_success"
        /\ <<"m", "-", "1">> \in DOMAIN models_table
        /\ SeedRows[<<"m", "-", "1">>].release_date # None
        /\ SeedRows[<<"m", "-", "1">>].sota_rank_open # NullRank
        /\ models_table[<<"m", "-", "1">>].source = "auto"
        /\ models_table[<<"m", "-", "1">>].metrics # "seed"
        /\ models_table[<<"m", "-", "1">>].release_date = None
        /\ models_table[<<"m", "-", "1">>].sota_rank_open = NullRank
        /\ DOMAIN models_table = DOMAIN SeedRows

\* C19: a store write failure during the batch of upserts leaves
\* refresh_if_stale as an exception; no record of the batch is committed and
\* the status row is not stamped, so C is still stale, C's lock is free and
\* the next refresh_if_stale(C) that checks C goes on to fetch.
C19_UpsertFailurePropagates ==
    /\ [][\A t \in Threads :
            (pc[t] = "update_models" /\ pc'[t] # "update_models")
            => \/ /\ pc'[t] = "stamp_success"
                  /\ \A i \in 1..Len(frame[t].models) :
                        frame[t].models[i].id \in DOMAIN models_table'
               \/ /\ pc'[t] = "done"
                  /\ result'[t].kind = "raised"
                  /\ result'[t].error = "StoreError"
                  /\ models_table' = models_table
                  /\ cache_status' = cache_status
                  /\ lock_owner'[frame[t].lock] = 0
                  /\ \A c \in {frame[t].category} : ~is_cache_fresh(c)']_vars
    /\ [][\A t \in Threads :
            (/\ pc[t] = "check_fresh"
             /\ pc'[t] # "check_fresh"
             /\ ~is_cache_fresh(frame[t].category)
             /\ frame[t].category \notin UnsourcedCategories)
            => pc'[t] = "fetch"]_vars

\* C19 witness: one call left the batch of upserts with the store's
\* exception; the rows are the ones the store started with, the category has
\* no status row, and a later call for it has fetched again.
C19_Witness ==
    \E t, u \in Threads :
        /\ t # u
        /\ pc[t] = "done"
        /\ result[t].kind = "raised"
        /\ result[t].at = "update_models"
        /\ result[t].error = "StoreError"
        /\ models_table = SeedRows
        /\ result[t].category \notin DOMAIN cache_status
        /\ frame[u].category = result[t].category
        /\ ~frame[u].blocked
        /\ pc[u] = "update_models"
        /\ invoked[u] # <<>>

\* C20: _refresh_lock is held only inside _get_category_lock, never during
\* a freshness check, a fetch or a store write; every category has its own
\* lock object, so a thread waiting for its category's lock waits only for
\* a thread of the same category, and when no thread of its category is in
\* the locked section the lock is free for it to take.
C20_CategoriesRefreshInParallel ==
    /\ \A t \in Threads :
          /\ refresh_lock = t => pc[t] = "in_refresh_lock"
          /\ pc[t] = "in_refresh_lock" => refresh_lock = t
    /\ \A c, d \in DOMAIN category_locks :
          c # d => category_locks[c] # category_locks[d]
    /\ \A u \in Threads :
          pc[u] = "wait_lock" =>
              /\ \A t \in Threads \ {u} :
                    lock_owner[frame[u].lock] = t
                        => frame[t].category = frame[u].category
              /\ (\A t \in Threads \ {u} :
                     ~(pc[t] \in LockedSection /\ frame[t].category = frame[u].category))
                    => lock_owner[frame[u].lock] = 0

\* C20 witness: while one thread is in the fetch loop for its category,
\* a thread refreshing another category has taken that category's lock and
\* fetched its own data; nobody holds _refresh_lock.
C20_Witness ==
    \E t, u \in Threads :
        /\ t # u
        /\ frame[t].category # frame[u].category
        /\ pc[t] = "fetch"
        /\ pc[u] = "update_models"
        /\ invoked[u] # <<>>
        /\ lock_owner[frame[t].lock] = t
        /\ lock_owner[frame[u].lock] = u
        /\ refresh_lock = 0

\* ------------------------------------------------------------------------
\* C21: every connection opened through get_db_context is closed on every
\* exit path of the operation that opened it: once an operation has returned
\* or raised (from the body or from the journal-mode statement right after
\* connect), no connection it opened is open.
\* ------------------------------------------------------------------------
C21_ConnectionClosedOnEveryExit ==
    \A t \in Threads :
        pc[t] = "done" => ~(\E c \in connections : c.by = t)

\* ------------------------------------------------------------------------
\* C22: configure_profile rejects a non-positive or non-integer vram_gb,
\* ram_gb or cpu_threads with a ValueError naming the field, before any
\* mutation: when the call raises, the persisted profiles data (profiles and
\* current profile) is what it was before the call, also when arguments
\* validated earlier in the same call are valid.
\* ------------------------------------------------------------------------
\* The first numeric argument, in the order of validation, that is given and
\* is not a positive integer; None when there is none.
FirstRejected(a) ==
    IF a.vram_gb # PyNone /\ (a.vram_gb.type \notin {"int", "bool"} \/ a.vram_gb.v <= 0)
    THEN "vram_gb"
    ELSE IF a.ram_gb # PyNone /\ (a.ram_gb.type \notin {"int", "bool"} \/ a.ram_gb.v <= 0)
    THEN "ram_gb"
    ELSE IF a.cpu_threads # PyNone
            /\ (a.cpu_threads.type \notin {"int", "bool"} \/ a.cpu_threads.v <= 0)
    THEN "cpu_threads"
    ELSE None

C22_InvalidProfileRejectedBeforeMutation ==
    [][(observed'.op = "configure_profile" /\ FirstRejected(observed'.at) # None)
          => /\ observed'.value.raised
             /\ observed'.value.message = FirstRejected(observed'.at)
             /\ hardware_profiles' = hardware_profiles]_vars

\* A call with a valid vram_gb and an invalid ram_gb has raised over a file
\* that holds a profile.
C22_Witness ==
    /\ observed.op = "configure_profile"
    /\ observed.value.raised
    /\ observed.value.message = "ram_gb"
    /\ observed.at.vram_gb = PyInt(24)
    /\ hardware_profiles.current # None
    /\ hardware_profiles.profiles[hardware_profiles.current].vram_gb # PyInt(24)

\* ------------------------------------------------------------------------
\* C23: vram_fits(requirement, available) over integer inputs: a None or
\* zero requirement always fits; a requirement strictly greater than
\* available never fits; a requirement equal to available fits; for every
\* form that states the size (an integer, "24GB", "24 GB").
\* ------------------------------------------------------------------------
\* The forms in which a requirement of n GB is stated.
SizeStatedAs(n) ==
    {PyInt(n), PyStr(str_nat(n) \o <<"G", "B">>), PyStr(str_nat(n) \o <<" ", "G", "B">>)}

C23_VramFitsBoundaries ==
    (observed.op = "vram_fits" /\ observed.called)
        => LET requirement == observed.at.model_vram
               available == observed.at.available_vram_gb
           IN  /\ requirement = PyNone => observed.value
               /\ available.type = "int"
                    => /\ requirement \in SizeStatedAs(0) => observed.value
                       /\ \A n \in 0..MaxVramGb :
                             requirement \in SizeStatedAs(n)
                                => /\ n > available.v => ~observed.value
                                   /\ n = available.v => observed.value
                                   /\ n < available.v => observed.value

\* A two-digit requirement written with a space before GB was compared with
\* an equal amount of available memory.
C23_Witness ==
    /\ observed.op = "vram_fits"
    /\ observed.called
    /\ observed.at.model_vram = PyStr(<<"1", "2", " ", "G", "B">>)
    /\ observed.at.available_vram_gb = PyInt(12)
    /\ observed.value

\* ------------------------------------------------------------------------
\* C24: normalize_model_id is idempotent: normalizing an identifier that
\* normalize_model_id returned gives that identifier again.
\* ------------------------------------------------------------------------
C24_NormalizeIdempotent ==
    (observed.op = "normalize_model_id" /\ observed.called)
        => normalize_model_id(observed.value) = observed.value

\* A name with a capital, a dot and a slash was normalized to an identifier
\* that differs from it.
C24_Witness ==
    /\ observed.op = "normalize_model_id"
    /\ observed.called
    /\ observed.at.name = <<"M", ".", "/">>
    /\ observed.value = <<"m", "-", "-">>

\* ------------------------------------------------------------------------
\* C25 (as stated): normalize_model_id maps its input character by
\* character: every space, "/" and "." becomes its own "-", every other
\* character is lowercased, nothing is collapsed or trimmed, so the output
\* has the length of the input, and the empty string maps to the empty string.
\* ------------------------------------------------------------------------
Separators == {" ", "/", "."}

\* The lowercase of a character whose lowercase is one character.
LowercaseOf(ch) == IF ch = "M" THEN "m" ELSE ch

C25_CharByCharSameLength ==
    (observed.op = "normalize_model_id" /\ observed.called)
        => /\ Len(observed.value) = Len(observed.at.name)
           /\ \A i \in 1..Len(observed.at.name) :
                 IF observed.at.name[i] \in Separators
                 THEN observed.value[i] = "-"
                 ELSE observed.at.name[i] # "U+0130"
                        => observed.value[i] = LowercaseOf(observed.at.name[i])

\* ------------------------------------------------------------------------
\* C25 (amended): normalize_model_id maps its input character by character,
\* without collapsing or trimming: every space, "/" and "." becomes its own
\* "-" and every other character becomes its lowercase.  The output has the
\* length of the input when the lowercase of every character is one
\* character; each U+0130 in the input accounts for two characters of the
\* output.  The empty string maps to the empty string.
\* ------------------------------------------------------------------------
\* What one character of the input becomes.
RECURSIVE ImageOf(_)
ImageOf(name) ==
    IF name = <<>> THEN <<>>
    ELSE (IF Head(name) \in Separators THEN <<"-">>
          ELSE IF Head(name) = "U+0130" THEN <<"i", "U+0307">>
          ELSE <<LowercaseOf(Head(name))>>) \o ImageOf(Tail(name))

C25_CharByChar ==
    (observed.op = "normalize_model_id" /\ observed.called)
        => /\ observed.value = ImageOf(observed.at.name)
           /\ (\A i \in 1..Len(observed.at.name) : observed.at.name[i] # "U+0130")
                 => /\ Len(observed.value) = Len(observed.at.name)
                    /\ \A i \in 1..Len(observed.at.name) :
                          observed.value[i] = IF observed.at.name[i] \in Separators THEN "-"
                                              ELSE LowercaseOf(observed.at.name[i])
           /\ observed.at.name = <<>> => observed.value = <<>>

\* A name that starts with a space and has a dot next to a slash was
\* normalized: three hyphens, none dropped.
C25_Witness ==
    /\ observed.op = "normalize_model_id"
    /\ observed.called
    /\ observed.at.name = <<" ", ".", "/">>
    /\ observed.value = <<"-", "-", "-">>

\* ------------------------------------------------------------------------
\* C26: every fetcher entry point used by the cache (fetch_llm_leaderboard,
\* fetch_trending_models, fetch_category) returns a list for every outcome
\* of the network call and of payload parsing: on timeout, HTTP error or
\* malformed payload it returns the empty list, it never propagates an
\* exception, and it never writes to the store.
\* ------------------------------------------------------------------------
\* The network call failed or the payload is malformed: not JSON, not a
\* list, or a list with an entry that is not an object (and, for a page, no
\* table rows beside it).
FailedOrMalformed(resp) ==
    \/ resp.kind \in {"timeout", "http_error"}
    \/ /\ resp.table = <<>>
       /\ \/ resp.kind \in {"not_json", "wrong_shape"}
          \/ \E i \in 1..Len(resp.entries) : ~resp.entries[i].object

C26_FetchersReturnEmptyOnFailure ==
    (observed.called /\ observed.op \in {"fetch_llm_leaderboard", "fetch_trending_models",
                                          "fetch_category"})
        => /\ ~observed.value.raised
           /\ FailedOrMalformed(observed.at.response) => observed.value.value = <<>>
           /\ models_table = SeedRows
           /\ cache_status = <<>>

\* ------------------------------------------------------------------------
\* C27: while a fetched batch is upserted, the failure of one record write
\* does not abort the batch: the call goes on past _update_models, the
\* records of the batch are in the store, and the count it carries on as
\* models_updated is the number of records submitted.
\* ------------------------------------------------------------------------
C27_RecordFailureDoesNotAbortBatch ==
    [][\A t \in Threads :
          (pc[t] = "update_models" /\ pc'[t] # "update_models")
              => /\ pc'[t] = "stamp_success"
                 /\ frame'[t].count = Len(frame[t].models)
                 /\ \A i \in 1..Len(frame[t].models) :
                       frame[t].models[i].id \in DOMAIN models_table']_vars

\* ------------------------------------------------------------------------
\* C28 (as stated): after a successful refresh of C whose winning source
\* returned the list L, the rows previously stored for C whose identifier
\* does not occur in L have been evicted from the store.
\* ------------------------------------------------------------------------
\* The identifiers of the rows the store holds for category c that do not
\* occur in the fetched list.
RowsOutside(c, models) ==
    {id \in DOMAIN models_table :
        /\ models_table[id].category = c
        /\ \A i \in 1..Len(models) : models[i].id # id}

C28_RowsOutsideListEvicted ==
    [][\A t \in Threads :
          (pc[t] = "update_models" /\ pc'[t] = "stamp_success")
              => \A id \in RowsOutside(frame[t].category, frame[t].models) :
                    id \notin DOMAIN models_table']_vars

\* ------------------------------------------------------------------------
\* C28 (amended): a successful refresh of C whose winning source returned
\* the list L writes the rows of the identifiers in L and no other row: the
\* rows previously stored for C whose identifier does not occur in L stay in
\* the store as they were (a truncated fetch removes nothing).
\* ------------------------------------------------------------------------
C28_RowsOutsideListKept ==
    /\ [][\A t \in Threads :
            (pc[t] = "update_models" /\ pc'[t] = "stamp_success")
                => \A id \in RowsOutside(frame[t].category, frame[t].models) :
                      /\ id \in DOMAIN models_table'
                      /\ models_table'[id] = models_table[id]]_vars
    /\ [][\A t \in Threads :
            (pc[t] = "stamp_success" /\ pc'[t] = "done")
                => models_table' = models_table]_vars

\* C28 witness: a refresh of llm_api has returned refreshed True with the
\* records of a list that does not name the seeded llm_api row, and that row
\* is in the store as seeded.
C28_Witness ==
    \E t \in Threads :
        /\ pc[t] = "done"
        /\ result[t].kind = "dict"
        /\ result[t].refreshed
        /\ result[t].category = "llm_api"
        /\ <<"m", "-", "1">> \in DOMAIN models_table
        /\ models_table[<<"m", "-", "1">>].source = "auto"
        /\ <<"x", "-", "2">> \in DOMAIN models_table
        /\ models_table[<<"x", "-", "2">>] = SeedRows[<<"x", "-", "2">>]

\* ------------------------------------------------------------------------
\* C29: whenever a migration version is recorded in schema_version, every
\* column its up SQL adds exists in the models table (download_url for 2,
\* the two price columns for 3, the three score columns for 4), the
\* statements that follow a "--" comment line in their piece included.
\* ------------------------------------------------------------------------
C29_RecordedMigrationInEffect ==
    \A i \in 1..Len(MIGRATIONS) :
        MIGRATIONS[i].version \in DOMAIN schema_version
            => ColumnsAdded(MIGRATIONS[i].up_sql) \subseteq models_columns

\* ------------------------------------------------------------------------
\* C30: a failed refresh attempt marks the category fresh.  When
\* refresh_if_stale(C) returns refreshed False because all sources failed,
\* C's status row carries fetch_success False and is_cache_fresh(C) is True;
\* such a row stays fresh until the date changes or force_refresh(C) is
\* called; and while it is fresh no fetcher is invoked for C.
\* ------------------------------------------------------------------------
\* C's status row was stamped by a failed attempt and counts as fresh.
FailedAndFresh(c) ==
    /\ c \in DOMAIN cache_status
    /\ ~cache_status[c].fetch_success
    /\ is_cache_fresh(c)

\* The step is the entry of a force_refresh(c) call (its DELETE).
ForceRefreshCalled(c) ==
    \E t \in Threads :
        /\ pc[t] = "idle"
        /\ pc'[t] # "idle"
        /\ frame'[t].op = "force_refresh"
        /\ frame'[t].category = c

C30_FailedRefreshMarksFresh ==
    /\ [][\A t \in Threads :
            (pc[t] = "stamp_failure" /\ pc'[t] = "done" /\ result'[t].kind = "dict")
                => /\ ~result'[t].refreshed
                   /\ result'[t].error # None
                   /\ \A c \in {frame[t].category} : FailedAndFresh(c)']_vars
    /\ [][\A c \in scope.categories :
            FailedAndFresh(c)
                => \/ FailedAndFresh(c)'
                   \/ DateOf(now') # DateOf(now)
                   \/ ForceRefreshCalled(c)]_vars
    /\ [][\A c \in scope.categories :
            FailedAndFresh(c)
                => \A t \in Threads :
                      frame[t].category = c => Len(invoked'[t]) <= Len(invoked[t])]_vars

\* C30 witness: a refresh of C returned refreshed False with an error after
\* its sources failed; later on the same date, with the failure row still the
\* status of C, another refresh_if_stale(C) returned the cache result without
\* invoking a fetcher.
C30_Witness ==
    \E t, u \in Threads :
        /\ t # u
        /\ now = 1
        /\ pc[t] = "done" /\ result[t].kind = "dict"
        /\ ~result[t].refreshed /\ result[t].error # None
        /\ FailedAndFresh(result[t].category)
        /\ cache_status[result[t].category].last_fetched = isoformat(0)
        /\ pc[u] = "done" /\ result[u].kind = "dict"
        /\ result[u].category = result[t].category
        /\ result[u].source = "cache"
        /\ fetched_calls[result[t].category] = 1

\* ------------------------------------------------------------------------
\* C31: within a successful refresh of C the batch is committed before the
\* status row is stamped.  While the batch is not yet written, and until the
\* stamp, C is not fresh; when the stamp is written every record of the
\* batch has its row in the store, written by a refresh; a store failure at
\* the stamp leaves the rows written and C stale.
\* ------------------------------------------------------------------------
\* Every record of the batch has a row written by a refresh.
BatchInStore(models, table) ==
    \A i \in 1..Len(models) :
        /\ models[i].id \in DOMAIN table
        /\ table[models[i].id].source = "auto"

C31_BatchCommittedBeforeStamp ==
    /\ [](\A t \in Threads :
            pc[t] \in {"update_models", "stamp_success"}
                => /\ ~is_cache_fresh(frame[t].category)
                   /\ pc[t] = "stamp_success" => BatchInStore(frame[t].models, models_table))
    /\ [][\A t \in Threads :
            (pc[t] = "stamp_success" /\ pc'[t] = "done")
                => /\ models_table' = models_table
                   /\ BatchInStore(frame[t].models, models_table')
                   /\ \A c \in {frame[t].category} :
                         IF result'[t].kind = "dict"
                         THEN /\ result'[t].refreshed
                              /\ cache_status'[c].fetch_success
                              /\ cache_status'[c].last_fetched = isoformat(now)
                              /\ is_cache_fresh(c)'
                         ELSE /\ result'[t].kind = "raised"
                              /\ cache_status' = cache_status
                              /\ ~is_cache_fresh(c)']_vars

\* C31 witness: a refresh wrote its batch and the stamp that follows raised:
\* the fetched row is in the store and the category has no status row.
C31_Witness ==
    \E t \in Threads :
        /\ pc[t] = "done"
        /\ result[t].kind = "raised"
        /\ result[t].at = "stamp_success"
        /\ result[t].category = "llm_local"
        /\ models_table[<<"m", "-", "1">>].source = "auto"
        /\ "llm_local" \notin DOMAIN cache_status

\* ------------------------------------------------------------------------
\* C32: models_updated is the length of the list the winning source
\* returned, not the number of rows changed.  The batch is that list; when
\* records of it share an identifier each is counted, the identifier has one
\* row, and the row holds the values of the last of them.
\* ------------------------------------------------------------------------
C32_CountIsListLength ==
    /\ [][\A t \in Threads :
            (pc[t] = "update_models" /\ pc'[t] = "stamp_success")
                => LET models == frame[t].models
                       ids == {models[i].id : i \in 1..Len(models)}
                   IN  /\ \E r \in fetch_from_source(frame[t].source_used,
                                                     frame[t].category) :
                              ~r.raised /\ r.value = models
                       /\ frame'[t].count = Len(models)
                       /\ Cardinality(DOMAIN models_table')
                             <= Cardinality(DOMAIN models_table) + Cardinality(ids)
                       /\ \A id \in ids :
                             models_table'[id]
                                = ModelRow(frame[t].category,
                                           LastRecordWith(models, id), now)]_vars
    /\ [][\A t \in Threads :
            (pc[t] = "stamp_success" /\ pc'[t] = "done" /\ result'[t].kind = "dict")
                => result'[t].models_updated = Len(frame[t].models)]_vars

\* C32 witness: a refresh returned models_updated 2 for the records 'M.1'
\* and 'm-1', which share the identifier 'm-1'; the store has the rows it
\* started with and the row 'm-1' carries the name of the second record.
C32_Witness ==
    \E t \in Threads :
        /\ pc[t] = "done"
        /\ result[t].kind = "dict"
        /\ result[t].refreshed
        /\ result[t].models_updated = 2
        /\ normalize_model_id(ProviderRanking[1]) = normalize_model_id(ProviderRanking[2])
        /\ ProviderRanking[1] # ProviderRanking[2]
        /\ DOMAIN models_table = DOMAIN SeedRows
        /\ models_table[<<"m", "-", "1">>].source = "auto"
        /\ models_table[<<"m", "-", "1">>].name = ProviderRanking[2]
        /\ models_table[<<"m", "-", "1">>].sota_rank = 2

\* ------------------------------------------------------------------------
\* C33: no deadlock and no leaked lock.  With fetcher calls and store
\* operations that terminate and fair lock acquisition, every call of
\* refresh_if_stale or force_refresh eventually returns or raises; a thread
\* that waits for or holds a category lock does not hold the bootstrap
\* lock; a thread that has left its call owns no lock, whatever the exit
\* (cache hit, manual, success, total failure, store-write exception).
\* ------------------------------------------------------------------------
C33_EveryCallReturns ==
    /\ [](\A t \in Threads :
            /\ pc[t] \in {"wait_lock"} \cup LockedSection => refresh_lock # t
            /\ pc[t] \in {"idle", "done"}
                  => /\ refresh_lock # t
                     /\ \A l \in DOMAIN lock_owner : lock_owner[l] # t)
    /\ \A t \in Threads : (pc[t] \notin {"idle", "done"}) ~> (pc[t] = "done")

\* C33 witness: one call left through the store-write exception while
\* another call for the same category was waiting for the lock; the waiting
\* call has returned too and every lock is free.
C33_Witness ==
    \E t, u \in Threads :
        /\ t # u
        /\ pc[t] = "done" /\ result[t].kind = "raised"
        /\ pc[u] = "done" /\ result[u].kind = "dict"
        /\ result[u].blocked
        /\ result[u].category = result[t].category
        /\ refresh_lock = 0
        /\ \A l \in DOMAIN lock_owner : lock_owner[l] = 0

\* ------------------------------------------------------------------------
\* C34: lazy creation of the per-category locks is race-free.  As many lock
\* objects have been created as categories have been asked for, one per
\* category; an entry of the map is never replaced; every caller that has
\* asked for a category's lock holds the lock object the map has for it.
\* ------------------------------------------------------------------------
C34_OneLockPerCategory ==
    /\ [](/\ Cardinality(DOMAIN lock_owner) = Cardinality(DOMAIN category_locks)
          /\ \A c, d \in DOMAIN category_locks :
                /\ category_locks[c] \in DOMAIN lock_owner
                /\ category_locks[c] = category_locks[d] => c = d
          /\ \A t \in Threads :
                pc[t] \in {"wait_lock"} \cup LockedSection
                    => /\ frame[t].category \in DOMAIN category_locks
                       /\ frame[t].lock = category_locks[frame[t].category])
    /\ [][\A c \in DOMAIN category_locks :
             /\ c \in DOMAIN category_locks'
             /\ category_locks'[c] = category_locks[c]]_vars

\* C34 witness: a first-time call is in the locked section of its category
\* and a second call has been handed the same lock object and waits for it;
\* one lock object exists.
C34_Witness ==
    \E t, u \in Threads :
        /\ t # u
        /\ pc[t] \in LockedSection
        /\ pc[u] = "wait_lock"
        /\ frame[u].category = frame[t].category
        /\ frame[u].lock = frame[t].lock
        /\ lock_owner[frame[t].lock] = t
        /\ Cardinality(DOMAIN lock_owner) = 1

\* ------------------------------------------------------------------------
\* C35: get_cache_manager is a thread-safe singleton.  At most one
\* CacheManager is ever constructed; every call returns that instance; the
\* instance keeps the db_path it was constructed with, whatever db_path the
\* later calls pass.
\* ------------------------------------------------------------------------
C35_SingletonConstructedOnce ==
    /\ [](/\ Len(constructed) <= 1
          /\ cache_manager = Len(constructed)
          /\ \A t \in Threads :
                result[t].kind = "returned"
                    => /\ result[t].value = 1
                       /\ cache_manager = 1)
    /\ [][constructed # <<>> => constructed' = constructed]_vars

\* C35 witness: two calls with different db_path arguments both saw None at
\* the first test and entered the lock one after the other; both returned
\* the one instance, constructed with the db_path of one of them.
C35_Witness ==
    \E t, u \in Threads :
        /\ t # u
        /\ pc[t] = "done" /\ pc[u] = "done"
        /\ result[t].locked /\ result[u].locked
        /\ frame[t].db_path # frame[u].db_path
        /\ result[t].value = 1 /\ result[u].value = 1
        /\ constructed = <<frame[t].db_path>>

\* ------------------------------------------------------------------------
\* C36: configure_profile never modifies the module-level DEFAULT_PROFILE
\* template: after any sequence of calls the template and its nested
\* preferences equal their values at import.
\* ------------------------------------------------------------------------
C36_DefaultProfileUnchanged ==
    /\ DEFAULT_PROFILE = DEFAULT_PROFILE_at_import
    /\ DEFAULT_PROFILE.preferences = DEFAULT_PROFILE_at_import.preferences

\* ------------------------------------------------------------------------
\* C37: with an empty schema_version table the current version is 0 and
\* every migration is pending; get_pending_migrations gives exactly the
\* migrations above the current version, in ascending order; once a
\* migrate() has completed without error the current version is the highest
\* version of MIGRATIONS and nothing is pending, and a later migrate()
\* applies nothing.
\* ------------------------------------------------------------------------
\* The highest version recorded, 0 when none is.
HighestRecorded ==
    IF DOMAIN schema_version = {} THEN 0
    ELSE CHOOSE v \in DOMAIN schema_version : \A w \in DOMAIN schema_version : w <= v

\* Some migrate() run has returned True.
MigrateCompleted ==
    \E u \in Threads : pc[u] = "done" /\ result[u].kind = "returned"

C37_PendingAreThoseAboveCurrent ==
    /\ [](LET pending == get_pending_migrations(schema_version)
          IN  /\ get_current_version(schema_version) = HighestRecorded
              /\ DOMAIN schema_version = {}
                    => /\ get_current_version(schema_version) = 0
                       /\ pending = MIGRATIONS
              /\ {pending[i].version : i \in 1..Len(pending)}
                    = {MIGRATIONS[i].version : i \in 1..Len(MIGRATIONS)}
                         \ (0..HighestRecorded)
              /\ \A i, j \in 1..Len(pending) :
                    i < j => pending[i].version < pending[j].version
              /\ MigrateCompleted
                    => /\ HighestRecorded = MIGRATIONS[Len(MIGRATIONS)].version
                       /\ pending = <<>>)
    /\ [][\A t \in Threads :
            (MigrateCompleted /\ pc[t] = "idle" /\ pc'[t] # "idle")
                => /\ pc'[t] = "done"
                   /\ result'[t].kind = "returned"
                   /\ schema_version' = schema_version
                   /\ models_columns' = models_columns]_vars

\* C37 witness: a first migrate() applied every migration and returned, and
\* a second migrate() found the database up to date and returned.
C37_Witness ==
    \E t, u \in Threads :
        /\ t # u
        /\ pc[t] = "done" /\ result[t].kind = "returned" /\ result[t].at = "migrate"
        /\ pc[u] = "done" /\ result[u].kind = "returned" /\ result[u].at = "up_to_date"
        /\ DOMAIN schema_version = 1..Len(MIGRATIONS)

\* ------------------------------------------------------------------------
\* C38: apply_migration is idempotent.  Applying a migration again, after a
\* complete application or after an attempt that failed part-way through
\* its statements, raises no duplicate-column error, and when it completes
\* the schema and the schema_version table are those of one complete
\* application made at that time to the database the attempts started from.
\* ------------------------------------------------------------------------
\* The columns of models after one complete application of m to a table with
\* the given columns: every executed statement's columns are added.
SingleApplication(columns, m) ==
    LET statements == split_semicolon(m.up_sql, <<>>)
    IN  columns \cup UNION {ColumnsAdded(statements[i]) :
                               i \in {j \in 1..Len(statements) : Executed(statements[j])}}

\* Thread t is applying m, at least one attempt was made before, and every
\* attempt made before was an attempt at m.
Reapplying(t, m) ==
    /\ Migrating(t)
    /\ Head(frame[t].pending) = m
    /\ DOMAIN schema_version \subseteq {m.version}
    /\ \E u \in Threads \ {t} : pc[u] = "done"
    /\ \A u \in Threads \ {t} :
          \/ pc[u] = "idle"
          \/ pc[u] = "done" /\ result[u].kind = "returned"
          \/ pc[u] = "done" /\ result[u].kind = "raised" /\ Head(frame[u].pending) = m

C39_RecordedVersionsArePrefix ==
    /\ [](/\ \A i \in 1..Len(MIGRATIONS) : MIGRATIONS[i].version = i
          /\ \A i, j \in 1..Len(MIGRATIONS) :
                MIGRATIONS[i].name = MIGRATIONS[j].name => i = j
          /\ \E k \in 0..Len(MIGRATIONS) : DOMAIN schema_version = 1..k
          /\ \A v \in DOMAIN schema_version : schema_version[v].name = MIGRATIONS[v].name)
    /\ [][\A t \in Threads :
            (/\ Migrating(t)
             /\ frame[t].statements # <<>>
             /\ Executed(Head(frame[t].statements))
             /\ ~DuplicateColumn(models_columns, Head(frame[t].statements))
             /\ models_columns' = models_columns)
                => /\ pc'[t] = "done"
                   /\ result'[t].kind = "raised"
                   /\ schema_version' = schema_version
                   /\ Head(frame[t].pending).version \notin DOMAIN schema_version']_vars

\* C39 witness: a migrate() run was aborted by the failure of a statement of
\* migration 4, after it had recorded migrations 1 to 3; migration 4 is not
\* recorded.
C39_Witness ==
    \E t \in Threads :
        /\ pc[t] = "done"
        /\ result[t].kind = "raised"
        /\ result[t].at = "execute"
        /\ Head(frame[t].pending).version = 4
        /\ "humaneval_score" \in models_columns
        /\ DOMAIN schema_version = 1..3

====
